---- MODULE Spec2Model ----
(***************************************************************************)
(* Model of the validation rule engine of the kintone IC-card loss plugin: *)
(* DataValidator (data-validator.js), the regular expressions it scans     *)
(* with, and the sanitizer of InputValidator.                              *)
(*                                                                         *)
(* A JavaScript string is a sequence of characters (one-character          *)
(* strings).  Every regular expression of the source is an operator that   *)
(* matches the way the expression does; the expressions carrying the g     *)
(* flag keep their lastIndex between calls, as RegExp.prototype.test does. *)
(***************************************************************************)
EXTENDS Integers, Sequences, FiniteSets, TLC

VARIABLES
    validationRules,  \* this.validationRules, read by property name
    stats,            \* this.stats
    xssLastIndex,     \* the lastIndex of each expression of this.xssPatterns
    call,             \* the public method called last
    tally,            \* validateField returns since the constructor or the
                      \* last resetStats, counted beside the model
    cardPatterns,     \* ICCardValidator: this.cardPatterns, in key order
    cardStats,        \* ICCardValidator: this.stats
    cardCall,         \* ICCardValidator: the method called last
    text,             \* a string handed to InputValidator.sanitizeInput, and
                      \* then what sanitizeInput returned for it
    passes,           \* how often sanitizeInput has been applied to text
    dangerousLastIndex,  \* InputValidator: the lastIndex of each expression of config.dangerousPatterns
    tmLastIndex,  \* TransportationManager: the lastIndex of each expression of securityConfig.dangerousPatterns
    inputCalls,  \* calls made on the InputValidator and the TransportationManager
    inputCall, \* the method of the two called last
    currentStep,  \* ICLossReportForm.currentStep
    isSubmitting,  \* ICLossReportForm.isSubmitting
    stepValid,  \* whether the required fields of steps 1 to 3 pass validateField
    agreeTerms,  \* whether #agree-terms is checked
    nextCalls,  \* the nextStep calls suspended at their await, oldest first
    submitCalls,  \* the handleSubmit calls inside their try block, oldest first
    lastSubmission,  \* the step and the field validity at the last submitData call
    formCall, \* what handleSubmit did last
    masterPassword,  \* SecurityConfig.masterPassword
    configHash,  \* SecurityConfig.config.hash
    loadReturn,  \* what the last loadConfig call returned
    storage,  \* the localStorage entries secure_config_<key>
    saved,  \* the key and the value of the last saveSecureConfig call that returned true
    peppers  \* the peppers that getPepper and getHashConfig returned, oldest first

\* the fields of a DataValidator
dataVars == <<validationRules, stats, xssLastIndex, call, tally>>

\* the fields of an ICCardValidator
cardVars == <<cardPatterns, cardStats, cardCall>>

\* a string on its way through the sanitizer
textVars == <<text, passes>>

\* the fields of an InputValidator and of the TransportationManager that owns it
inputVars == <<dangerousLastIndex, tmLastIndex, inputCalls, inputCall>>

\* the fields of an ICLossReportForm, its form and its calls in progress
formVars == <<currentStep, isSubmitting, stepValid, agreeTerms, nextCalls, submitCalls, lastSubmission, formCall>>

\* the fields of a SecurityConfig and the storage it reads
configVars == <<masterPassword, configHash, loadReturn, storage, saved, peppers>>

vars == <<dataVars, cardVars, textVars, inputVars, formVars, configVars>>

(***************************************************************************)
(* Characters and character classes                                        *)
(***************************************************************************)
LowerLetters ==
    {"a","b","c","d","e","f","g","h","i","j","k","l","m",
     "n","o","p","q","r","s","t","u","v","w","x","y","z"}

LowerOf ==
    ("A" :> "a") @@ ("B" :> "b") @@ ("C" :> "c") @@ ("D" :> "d") @@
    ("E" :> "e") @@ ("F" :> "f") @@ ("G" :> "g") @@ ("H" :> "h") @@
    ("I" :> "i") @@ ("J" :> "j") @@ ("K" :> "k") @@ ("L" :> "l") @@
    ("M" :> "m") @@ ("N" :> "n") @@ ("O" :> "o") @@ ("P" :> "p") @@
    ("Q" :> "q") @@ ("R" :> "r") @@ ("S" :> "s") @@ ("T" :> "t") @@
    ("U" :> "u") @@ ("V" :> "v") @@ ("W" :> "w") @@ ("X" :> "x") @@
    ("Y" :> "y") @@ ("Z" :> "z")

UpperLetters == DOMAIN LowerOf

Digits == {"0","1","2","3","4","5","6","7","8","9"}

\* the i flag: both sides are compared in lower case
Lower(c) == IF c \in UpperLetters THEN LowerOf[c] ELSE c

Letters == LowerLetters \cup UpperLetters

\* \w
WordChars == Letters \cup Digits \cup {"_"}

IsWord(c) == c \in WordChars

\* [\x00-\x1F\x7F]: the control characters the model's strings may hold
CtlChars == {"\t", "\n"}

\* \s
SpaceChars == {" ", "\t", "\n"}

IsSpace(c) == c \in SpaceChars

\* . (any character but a line terminator)
IsDot(c) == c # "\n"

(***************************************************************************)
(* Matching helpers.  Positions are 1-based; a lastIndex is 0-based, so    *)
(* the lastIndex after a match ending at position e is e.                  *)
(***************************************************************************)
\* the literal lit stands at position i of s (case-sensitive)
LitAt(s, i, lit) ==
    /\ i >= 1
    /\ i + Len(lit) - 1 <= Len(s)
    /\ \A k \in 1..Len(lit) : s[i + k - 1] = lit[k]

\* the lower-case literal lit stands at position i of s, ignoring case
LitAtI(s, i, lit) ==
    /\ i >= 1
    /\ i + Len(lit) - 1 <= Len(s)
    /\ \A k \in 1..Len(lit) : Lower(s[i + k - 1]) = lit[k]

\* \b between positions i-1 and i
Boundary(s, i) ==
    LET before == i > 1 /\ i - 1 <= Len(s) /\ IsWord(s[i - 1])
        after  == i >= 1 /\ i <= Len(s) /\ IsWord(s[i])
    IN  before # after

\* \b lit \b at position i, ignoring case
WordAtI(s, i, lit) ==
    /\ LitAtI(s, i, lit)
    /\ Boundary(s, i)
    /\ Boundary(s, i + Len(lit))

HasWordI(s, lits) == \E i \in 1..Len(s) : \E l \in lits : WordAtI(s, i, l)

HasLit(s, lits) == \E i \in 1..Len(s) : \E l \in lits : LitAt(s, i, l)

\* .* can run over positions a..b
AllDot(s, a, b) == \A k \in a..b : IsDot(s[k])

\* last position of the longest run of characters in class cls from position
\* i on (i - 1 when the run is empty)
RECURSIVE RunEnd(_, _, _)
RunEnd(s, i, cls) ==
    IF i <= Len(s) /\ s[i] \in cls THEN RunEnd(s, i + 1, cls) ELSE i - 1

(***************************************************************************)
(* DataValidator.sqlInjectionPatterns: five expressions without the g      *)
(* flag, so test() depends on the string alone.                            *)
(***************************************************************************)
SqlKeywords ==
    { <<"s","e","l","e","c","t">>, <<"i","n","s","e","r","t">>,
      <<"u","p","d","a","t","e">>, <<"d","e","l","e","t","e">>,
      <<"d","r","o","p">>, <<"c","r","e","a","t","e">>,
      <<"a","l","t","e","r">>, <<"e","x","e","c">>, <<"u","n","i","o","n">> }

OrAnd == { <<"o","r">>, <<"a","n","d">> }

ScriptWords ==
    { <<"s","c","r","i","p","t">>,
      <<"j","a","v","a","s","c","r","i","p","t">>,
      <<"v","b","s","c","r","i","p","t">> }

\* /(\b(SELECT|INSERT|UPDATE|DELETE|DROP|CREATE|ALTER|EXEC|UNION)\b)/i
SqlPattern1(s) == HasWordI(s, SqlKeywords)

\* /(\-\-|\#|\/\*|\*\/)/
SqlPattern2(s) == HasLit(s, { <<"-","-">>, <<"#">>, <<"/","*">>, <<"*","/">> })

\* /(\b(OR|AND)\b.*=.*(\b(OR|AND)\b|$))/i
SqlPattern3(s) ==
    \E i \in 1..Len(s) : \E l \in OrAnd :
        /\ WordAtI(s, i, l)
        /\ \E j \in (i + Len(l))..Len(s) :
              /\ s[j] = "="
              /\ AllDot(s, i + Len(l), j - 1)
              /\ \/ AllDot(s, j + 1, Len(s))
                 \/ \E m \in (j + 1)..Len(s) : \E l2 \in OrAnd :
                        WordAtI(s, m, l2) /\ AllDot(s, j + 1, m - 1)

\* /(\'|\").*(\bOR\b|\bAND\b).*(\1)/i
SqlPattern4(s) ==
    \E q \in 1..Len(s) :
        /\ s[q] \in {"'", "\""}
        /\ \E i \in (q + 1)..Len(s) : \E l \in OrAnd :
              /\ WordAtI(s, i, l)
              /\ AllDot(s, q + 1, i - 1)
              /\ \E r \in (i + Len(l))..Len(s) :
                    s[r] = s[q] /\ AllDot(s, i + Len(l), r - 1)

\* /(\b(SCRIPT|JAVASCRIPT|VBSCRIPT)\b)/i
SqlPattern5(s) == HasWordI(s, ScriptWords)

sqlInjectionPatterns(s) ==
    SqlPattern1(s) \/ SqlPattern2(s) \/ SqlPattern3(s) \/ SqlPattern4(s)
        \/ SqlPattern5(s)

(***************************************************************************)
(* DataValidator.osCommandPatterns: four expressions without the g flag.   *)
(***************************************************************************)
OsWords1 ==
    { <<"r","m">>, <<"d","e","l">>, <<"f","o","r","m","a","t">>,
      <<"m","k","d","i","r">>, <<"r","m","d","i","r">>, <<"c","o","p","y">>,
      <<"m","o","v","e">>, <<"e","x","e","c">>, <<"e","v","a","l">>,
      <<"s","y","s","t","e","m">>,
      <<"s","h","e","l","l","_","e","x","e","c">> }

OsWords2 ==
    { <<"s","u","d","o">>, <<"s","u">>, <<"c","h","m","o","d">>,
      <<"c","h","o","w","n">> }

\* the grave accent, which a string of this module cannot hold literally
Backtick == "GRAVE"

\* /(\||;|&|GRAVE|\$\(|\$\{)/
OsPattern1(s) ==
    HasLit(s, { <<"|">>, <<";">>, <<"&">>, <<Backtick>>, <<"$","(">>,
                <<"$","{">> })

\* /(\b(rm|del|format|mkdir|rmdir|copy|move|exec|eval|system|shell_exec)\b)/i
OsPattern2(s) == HasWordI(s, OsWords1)

\* /(\.\.\/|\.\.\\)/
OsPattern3(s) == HasLit(s, { <<".",".","/">>, <<".",".","\\">> })

\* /(\b(sudo|su|chmod|chown)\b)/i
OsPattern4(s) == HasWordI(s, OsWords2)

osCommandPatterns(s) ==
    OsPattern1(s) \/ OsPattern2(s) \/ OsPattern3(s) \/ OsPattern4(s)

(***************************************************************************)
(* The expressions that carry the g flag.  MatchEnd(re, s, p) is the last  *)
(* position of the match of re that starts at position p, or 0.            *)
(***************************************************************************)
Min(S) == CHOOSE x \in S : \A y \in S : x <= y

RECURSIVE RunEndNot(_, _, _)
RunEndNot(s, i, cls) ==
    IF i <= Len(s) /\ s[i] \notin cls THEN RunEndNot(s, i + 1, cls) ELSE i - 1

\* /<tag\b[^<]*(?:(?!<\/tag>)<[^<]*)*<\/tag>/gi: from "<tag" at a word
\* boundary to the first closing tag after it
ElementEnd(s, p, open, close) ==
    LET from   == p + Len(open)
        closes == {j \in from..Len(s) : LitAtI(s, j, close)}
    IN  IF LitAtI(s, p, open) /\ Boundary(s, from) /\ closes # {}
        THEN Min(closes) + Len(close) - 1
        ELSE 0

\* /on\w+\s*=/gi
HandlerEnd(s, p) ==
    LET w  == RunEnd(s, p + 2, WordChars)
        sp == RunEnd(s, w + 1, SpaceChars)
    IN  IF LitAtI(s, p, <<"o","n">>) /\ w >= p + 2
           /\ sp + 1 <= Len(s) /\ s[sp + 1] = "="
        THEN sp + 1
        ELSE 0

\* /on\w+\s*=\s*[^>\s]+/gi
HandlerValueEnd(s, p) ==
    LET e  == HandlerEnd(s, p)
        sp == RunEnd(s, e + 1, SpaceChars)
        v  == RunEndNot(s, sp + 1, SpaceChars \cup {">"})
    IN  IF e > 0 /\ v >= sp + 1 THEN v ELSE 0

TagWords ==
    { <<"o","b","j","e","c","t">>, <<"e","m","b","e","d">>,
      <<"a","p","p","l","e","t">>, <<"m","e","t","a">> }

\* /<\s*(object|embed|applet|meta)\b/gi
TagEnd(s, p) ==
    LET sp == RunEnd(s, p + 1, SpaceChars)
        ws == {l \in TagWords :
                 LitAtI(s, sp + 1, l) /\ Boundary(s, sp + 1 + Len(l))}
    IN  IF p <= Len(s) /\ s[p] = "<" /\ ws # {}
        THEN sp + Len(CHOOSE l \in ws : TRUE)
        ELSE 0

LiteralEnd(s, p, lit) == IF LitAtI(s, p, lit) THEN p + Len(lit) - 1 ELSE 0

MatchEnd(re, s, p) ==
    CASE re = "script" ->
           ElementEnd(s, p, <<"<","s","c","r","i","p","t">>,
                      <<"<","/","s","c","r","i","p","t",">">>)
      [] re = "iframe" ->
           ElementEnd(s, p, <<"<","i","f","r","a","m","e">>,
                      <<"<","/","i","f","r","a","m","e",">">>)
      [] re = "object" ->
           ElementEnd(s, p, <<"<","o","b","j","e","c","t">>,
                      <<"<","/","o","b","j","e","c","t",">">>)
      [] re = "javascript" ->
           LiteralEnd(s, p, <<"j","a","v","a","s","c","r","i","p","t",":">>)
      [] re = "vbscript" ->
           LiteralEnd(s, p, <<"v","b","s","c","r","i","p","t",":">>)
      [] re = "handler" -> HandlerEnd(s, p)
      [] re = "handlerValue" -> HandlerValueEnd(s, p)
      [] re = "tag" -> TagEnd(s, p)
      [] re = "control" -> IF s[p] \in CtlChars THEN p ELSE 0
      [] re = "dataHtml" ->       \* /data:text\/html/gi
           LiteralEnd(s, p, <<"d","a","t","a",":","t","e","x","t","/","h","t","m","l">>)
      [] re = "sqlChars" ->       \* /['"GRAVE;\\\\]/g
           IF s[p] \in {"'", "\"", Backtick, ";", "\\"} THEN p ELSE 0
      [] re = "dashes" ->         \* /--/g
           LiteralEnd(s, p, <<"-","-">>)
      [] re = "blockComment" ->   \* /\/\*/g
           LiteralEnd(s, p, <<"/","*">>)
      [] re = "scriptOpen" ->     \* /<script/gi
           LiteralEnd(s, p, <<"<","s","c","r","i","p","t">>)

\* RegExp.prototype.test of a g-flagged expression whose lastIndex is
\* lastIndex: the search starts there; the value is the new lastIndex, which
\* is 0 exactly when test() returns false
Exec(re, s, lastIndex) ==
    LET starts == {p \in (lastIndex + 1)..Len(s) : MatchEnd(re, s, p) > 0}
    IN  IF lastIndex > Len(s) \/ starts = {}
        THEN 0
        ELSE MatchEnd(re, s, Min(starts))

\* the same expression on a fresh RegExp object (lastIndex 0)
Matches(re, s) == Exec(re, s, 0) > 0

\* String.prototype.replace(re, '') with a g-flagged expression: every
\* match, leftmost first and not overlapping, is removed
RECURSIVE RemoveFrom(_, _, _)
\* e is the end of the match at p, or 0
RemoveStep(re, s, p, e) ==
    IF e > 0 THEN RemoveFrom(re, s, e + 1)
    ELSE <<s[p]>> \o RemoveFrom(re, s, p + 1)

RemoveFrom(re, s, p) ==
    IF p > Len(s) THEN <<>> ELSE RemoveStep(re, s, p, MatchEnd(re, s, p))

RemoveAll(re, s) == RemoveFrom(re, s, 1)

\* String.prototype.trim
RECURSIVE TrimLeft(_)
TrimLeft(s) ==
    IF s # <<>> /\ IsSpace(Head(s)) THEN TrimLeft(Tail(s)) ELSE s

RECURSIVE TrimRight(_)
TrimRight(s) ==
    IF s # <<>> /\ IsSpace(s[Len(s)])
    THEN TrimRight(SubSeq(s, 1, Len(s) - 1))
    ELSE s

Trim(s) == TrimRight(TrimLeft(s))

(***************************************************************************)
(* InputValidator.sanitizeInput                                            *)
(***************************************************************************)
sanitizeInput(input) ==
    LET s1 == RemoveAll("control", input)
        s2 == RemoveAll("script", s1)
        s3 == RemoveAll("iframe", s2)
        s4 == RemoveAll("object", s3)
        s5 == RemoveAll("handlerValue", s4)
        s6 == RemoveAll("javascript", s5)
        s7 == RemoveAll("vbscript", s6)
    IN  Trim(s7)

\* DataValidator.xssPatterns, in the order of the array
xssPatterns == <<"script", "iframe", "javascript", "handler", "tag">>

(***************************************************************************)
(* The field rule registry: DataValidator.validationRules                  *)
(***************************************************************************)
\* a character of [ぁ-んァ-ヶー一-龠], which a string of this module cannot
\* hold literally
JapaneseChars == {"KANA", "KANJI"}

AllIn(s, cls) == \A k \in 1..Len(s) : s[k] \in cls

CardTypeNames ==
    { <<"S","U","I","C","A">>, <<"P","A","S","M","O">>,
      <<"I","C","O","C","A">>, <<"M","A","N","A","C","A">>,
      <<"T","O","I","C","A">>, <<"S","U","G","O","C","A">>,
      <<"K","I","T","A","C","A">>,
      <<"H","A","Y","A","K","A","K","E","N">>,
      <<"N","I","M","O","C","A">>,
      <<"C","O","R","P","O","R","A","T","E">>,
      <<"S","T","U","D","E","N","T">> }

ReportStatusNames ==
    { <<"D","R","A","F","T">>, <<"S","U","B","M","I","T","T","E","D">>,
      <<"P","R","O","C","E","S","S","I","N","G">>,
      <<"C","O","M","P","L","E","T","E","D">>,
      <<"C","A","N","C","E","L","L","E","D">> }

PriorityNames ==
    { <<"L","O","W">>, <<"M","E","D","I","U","M">>, <<"H","I","G","H">>,
      <<"U","R","G","E","N","T">> }

\* /^[a-zA-Z0-9._%+-]+@[a-zA-Z0-9.-]+\.[a-zA-Z]{2,}$/
EmailPattern(s) ==
    \E a \in 2..Len(s) : \E d \in (a + 2)..(Len(s) - 2) :
        /\ s[a] = "@"
        /\ s[d] = "."
        /\ AllIn(SubSeq(s, 1, a - 1),
                 Letters \cup Digits \cup {".", "_", "%", "+", "-"})
        /\ AllIn(SubSeq(s, a + 1, d - 1), Letters \cup Digits \cup {".", "-"})
        /\ AllIn(SubSeq(s, d + 1, Len(s)), Letters)

\* /^\d{4}-\d{2}-\d{2}$/
LossDatePattern(s) ==
    /\ Len(s) = 10
    /\ \A k \in 1..10 : IF k \in {5, 8} THEN s[k] = "-" ELSE s[k] \in Digits

\* /^([01]?[0-9]|2[0-3]):[0-5][0-9]$/
LossTimePattern(s) ==
    LET n == Len(s)
    IN  /\ n \in {4, 5}
        /\ s[n - 2] = ":"
        /\ s[n - 1] \in {"0","1","2","3","4","5"}
        /\ s[n] \in Digits
        /\ IF n = 4 THEN s[1] \in Digits
           ELSE \/ s[1] \in {"0","1"} /\ s[2] \in Digits
                \/ s[1] = "2" /\ s[2] \in {"0","1","2","3"}

\* RegExp.prototype.test of a rule's pattern (none carries the g flag).  The
\* pattern of a rule is named after the rule that holds it.
PatternTest(pattern, s) ==
    CASE pattern = "employeeId" ->       \* /^[A-Za-z0-9]{6,12}$/
           AllIn(s, Letters \cup Digits) /\ Len(s) \in 6..12
      [] pattern = "employeeName" ->     \* /^[ぁ-んァ-ヶー一-龠a-zA-Z\s]{1,50}$/
           AllIn(s, JapaneseChars \cup Letters \cup SpaceChars)
               /\ Len(s) \in 1..50
      [] pattern = "department" ->  \* /^[ぁ-んァ-ヶー一-龠a-zA-Z0-9\s\-]{1,30}$/
           AllIn(s, JapaneseChars \cup Letters \cup Digits \cup SpaceChars
                        \cup {"-"})
               /\ Len(s) \in 1..30
      [] pattern = "email" -> EmailPattern(s)
      [] pattern = "phoneNumber" ->      \* /^[0-9\-\(\)\s]{10,15}$/
           AllIn(s, Digits \cup SpaceChars \cup {"-", "(", ")"})
               /\ Len(s) \in 10..15
      [] pattern = "icCardNumber" ->     \* /^[0-9]{4,20}$/
           AllIn(s, Digits) /\ Len(s) \in 4..20
      [] pattern = "cardType" -> s \in CardTypeNames
      [] pattern = "lossDate" -> LossDatePattern(s)
      [] pattern = "lossTime" -> LossTimePattern(s)
      [] pattern = "lossLocation" ->
           \* /^[ぁ-んァ-ヶー一-龠a-zA-Z0-9\s\-\(\)]{1,100}$/
           AllIn(s, JapaneseChars \cup Letters \cup Digits \cup SpaceChars
                        \cup {"-", "(", ")"})
               /\ Len(s) \in 1..100
      [] pattern = "transportationProvider" ->
           \* /^[ぁ-んァ-ヶー一-龠a-zA-Z0-9\s\-]{1,50}$/
           AllIn(s, JapaneseChars \cup Letters \cup Digits \cup SpaceChars
                        \cup {"-"})
               /\ Len(s) \in 1..50
      [] pattern = "reportStatus" -> s \in ReportStatusNames
      [] pattern = "priority" -> s \in PriorityNames
      [] pattern = "customId" ->         \* /^[A-Z]{2}\d{6}$/ (the test's rule)
           /\ Len(s) = 8
           /\ \A k \in 1..8 :
                IF k <= 2 THEN s[k] \in UpperLetters ELSE s[k] \in Digits

\* A rule descriptor.  props are the properties the object has; pattern is
\* "" for null or undefined (a free-text rule), "notRegExp" for a truthy
\* value that has no test method, and else the name of an expression.
Rule(pattern, maxLength, required, sanitize) ==
    [ kind |-> "rule",
      props |-> {"pattern", "maxLength", "required", "sanitize",
                 "description"},
      pattern |-> pattern, maxLength |-> maxLength,
      required |-> required, sanitize |-> sanitize ]

\* validationRules[name] of a name the object does not hold: undefined
NoRule ==
    [ kind |-> "undefined", props |-> {}, pattern |-> "", maxLength |-> 0,
      required |-> FALSE, sanitize |-> FALSE ]

\* validationRules[name] of a name that Object.prototype holds
\* (validationRules is an object literal): a function object, which is
\* truthy and has none of the rule's properties
InheritedRule ==
    [ kind |-> "inherited", props |-> {}, pattern |-> "", maxLength |-> 0,
      required |-> FALSE, sanitize |-> FALSE ]

BuiltinRules ==
    [ employeeId             |-> Rule("employeeId", 12, TRUE, TRUE),
      employeeName           |-> Rule("employeeName", 50, TRUE, TRUE),
      department             |-> Rule("department", 30, TRUE, TRUE),
      email                  |-> Rule("email", 100, FALSE, TRUE),
      phoneNumber            |-> Rule("phoneNumber", 15, FALSE, TRUE),
      icCardNumber           |-> Rule("icCardNumber", 20, TRUE, TRUE),
      cardType               |-> Rule("cardType", 20, TRUE, TRUE),
      lossDate               |-> Rule("lossDate", 10, TRUE, TRUE),
      lossTime               |-> Rule("lossTime", 5, FALSE, TRUE),
      lossLocation           |-> Rule("lossLocation", 100, TRUE, TRUE),
      transportationProvider |-> Rule("transportationProvider", 50, FALSE,
                                      TRUE),
      reportStatus           |-> Rule("reportStatus", 20, TRUE, TRUE),
      priority               |-> Rule("priority", 10, FALSE, TRUE),
      description            |-> Rule("", 500, FALSE, TRUE),
      notes                  |-> Rule("", 1000, FALSE, TRUE) ]

BuiltinNames == DOMAIN BuiltinRules

\* a property name of Object.prototype
InheritedNames == {"constructor"}

\* names no rule is ever built in for
OtherNames == {"customId", "nonexistent", ""}

\* a field name that is not a string
NonString == "NON-STRING"

PropertyNames == BuiltinNames \cup InheritedNames \cup OtherNames

\* the validationRules object after the constructor, read by property name
InitialRules ==
    [ n \in PropertyNames |->
        IF n \in BuiltinNames THEN BuiltinRules[n]
        ELSE IF n \in InheritedNames THEN InheritedRule
        ELSE NoRule ]

(***************************************************************************)
(* Values, statistics and results                                          *)
(***************************************************************************)
\* a JavaScript value handed to the validator: null, undefined or a string
Null == [kind |-> "null", str |-> <<>>]
Undefined == [kind |-> "undefined", str |-> <<>>]
Str(s) == [kind |-> "string", str |-> s]

\* this.stats after the constructor and after resetStats
InitialStats ==
    [ totalValidations |-> 0, successfulValidations |-> 0,
      failedValidations |-> 0, securityViolations |-> 0,
      lastValidation |-> "null",
      violationTypes |->
        [ sqlInjection |-> 0, osCommand |-> 0, xss |-> 0,
          invalidFormat |-> 0, excessiveLength |-> 0 ] ]

\* this.stats.<counter>++
Incr(st, counter) == [st EXCEPT ![counter] = @ + 1]

\* this.stats.violationTypes.<counter>++
IncrType(st, counter) == [st EXCEPT !.violationTypes[counter] = @ + 1]

\* the lastIndex of each expression of xssPatterns after the constructor
InitialLastIndex == [k \in 1..Len(xssPatterns) |-> 0]

\* The object validateField returns.  A property the object does not have
\* is Undefined, "" or -1; scan is not a property: it records what the
\* security check of this call returned ("notrun" when it did not run).
FieldResult(valid, error) ==
    [ valid |-> valid, error |-> error, sanitizedValue |-> Undefined,
      violationType |-> "", actualLength |-> -1, maxLength |-> -1,
      scan |-> "notrun" ]

(***************************************************************************)
(* The strings of the model, and what each expression answers on them.     *)
(* The tables hold test() and sanitizeInput() of every such string, worked *)
(* out once by the operators above.                                        *)
(***************************************************************************)
\* the strings the model's callers pass
StringInputs ==
    { <<>>,                                    \* ''
      <<" "," "," ">>,                         \* blank
      <<"1","2",":","3","0">>,                 \* '12:30'
      <<"1","2","3","4","5","6">>,             \* '123456'
      <<"a","\t","b">>,                        \* a control character
      <<"A","B","1","2","3","4","5","6">>,     \* 'AB123456'
      <<"o","n","n","=">>,                     \* 'onn='
      <<"o","n","n","=","o","n","n","=">>,     \* 'onn=onn='
      <<"#">>,                                 \* SQL comment
      <<";">>,                                 \* command separator
      <<"#",";","o","n","n","=">>,             \* all three kinds
      <<"o","n","n","=",";">> }                \* OS command and XSS

\* a number that passes the Luhn check, as the checksum test has it
LuhnValidNumber ==
    <<"4","5","3","2","0","1","5","1","1","2","8","3","0","3","6","6">>

\* s with the digit at position i replaced by d
WithDigit(s, i, d) == [s EXCEPT ![i] = d]

\* the card numbers the model's callers pass: the numbers of the tests
\* (16 digits, 15 and 17 digits, 8 to 13 digits, too short, too long, not
\* digits, blanks around), the Luhn-valid number and every number that
\* differs from it in one digit
CardStrings ==
    { WithDigit(LuhnValidNumber, i, d) :
          i \in 1..Len(LuhnValidNumber), d \in Digits }
    \cup
    { <<>>,
      <<"1","2","3","4","5","6","7","8","9","0","1","2","3","4","5","6">>,
      <<"9","8","7","6","5","4","3","2","1","0","9","8","7","6","5","4">>,
      <<"2","0","0","0","0","0","1","2","3","4","5","6","7","8","9","0">>,
      <<"3","0","0","0","0","0","1","1","1","1","2","2","2","2","3","3">>,
      <<"1","2","3","4","5","6","7","8","9","0","1","2","3","4","5">>,
      <<"1","2","3","4","5","6","7","8","9","0","1","2","3","4","5","6","7">>,
      <<"1","2","3","4","5","6","7","8","9","0">>,
      <<"1","2","3","4","5","6","7","8","9","0","1","2">>,
      <<"1","2","3","4","5","6","7","8">>,
      <<"1","2","3","4","5","6","7","8","9","0","1","2","3">>,
      <<"1","2","3","4">>,
      <<"1","2","3","4","5","6","7">>,
      <<"1","2","3">>,
      <<"1","2","3","4","5","6","7","8","9","0","1","2","3","4","5","6","7","8","9","0">>,
      <<"1","2","3","4","5","6","7","8","9","0","1","2","3","4","5","6","7","8","9","0","1">>,
      <<"1","2","3","4","a","b","c","d">>,
      <<" ","1","2","3","4","5","6","7","8","9","0"," ">> }

\* the XSS payloads of the tests, shortened: a script element, a
\* javascript: URL, an iframe element, an embed tag, an event handler
XssPayloads ==
    { <<"<","s","c","r","i","p","t",">","a","l","e","r","t","(","1",")","<","/","s","c","r","i","p","t",">">>,
      <<"j","a","v","a","s","c","r","i","p","t",":","a","l","e","r","t","(","1",")">>,
      <<"<","i","f","r","a","m","e"," ","s","r","c","=","x",">","<","/","i","f","r","a","m","e",">">>,
      <<"<","e","m","b","e","d"," ","s","r","c","=","x",">">>,
      <<"<","i","m","g"," ","s","r","c","=","x"," ","o","n","e","r","r","o","r","=","a","l","e","r","t","(","1",")",">">> }

\* the strings the tables are worked out for
ScannedStrings == StringInputs \cup XssPayloads

\* some expression of sqlInjectionPatterns matches s
SqlInjectionTest == [s \in ScannedStrings |-> sqlInjectionPatterns(s)]

\* some expression of osCommandPatterns matches s
OsCommandTest == [s \in ScannedStrings |-> osCommandPatterns(s)]

\* test() of the k-th expression of xssPatterns on s at each lastIndex
XssTest ==
    [ k \in 1..Len(xssPatterns) |->
        [ s \in ScannedStrings |->
            [ lastIndex \in 0..Len(s) |-> Exec(xssPatterns[k], s, lastIndex) ] ] ]

\* sanitizeInput(s)
Sanitized == [s \in ScannedStrings \cup CardStrings |-> sanitizeInput(s)]

(***************************************************************************)
(* DataValidator.performSecurityCheck                                      *)
(***************************************************************************)
\* the for loop over xssPatterns from the k-th expression on: each test()
\* that fails resets that expression's lastIndex, the first that succeeds
\* leaves its lastIndex behind the match and ends the loop
RECURSIVE XssLoop(_, _, _)
\* e is what test() of the k-th expression left in its lastIndex
XssStep(s, li, k, e) ==
    IF e > 0 THEN [hit |-> TRUE, li |-> [li EXCEPT ![k] = e]]
    ELSE XssLoop(s, [li EXCEPT ![k] = e], k + 1)

XssLoop(s, li, k) ==
    IF k > Len(xssPatterns) THEN [hit |-> FALSE, li |-> li]
    ELSE XssStep(s, li, k,
                 IF li[k] > Len(s) THEN 0 ELSE XssTest[k][s][li[k]])

\* the XSS check, x being what the loop over xssPatterns found
XssCheck(st, x) ==
    IF x.hit
    THEN [ safe |-> FALSE, violation |-> "XSS",
           stats |-> IncrType(st, "xss"), li |-> x.li ]
    ELSE [ safe |-> TRUE, violation |-> "NONE", stats |-> st, li |-> x.li ]

\* violation is "NONE" where the source returns { safe: true }
performSecurityCheck(st, li, s) ==
    IF SqlInjectionTest[s]
    THEN [ safe |-> FALSE, violation |-> "SQL_INJECTION",
           stats |-> IncrType(st, "sqlInjection"), li |-> li ]
    ELSE IF OsCommandTest[s]
    THEN [ safe |-> FALSE, violation |-> "OS_COMMAND_INJECTION",
           stats |-> IncrType(st, "osCommand"), li |-> li ]
    ELSE XssCheck(st, XssLoop(s, li, 1))

(***************************************************************************)
(* InputValidator.sanitizeString and isValidString of                      *)
(* security/input-validator.js, which DataValidator imports                *)
(***************************************************************************)
\* the Sanitizer: strip control characters, remove complete script, iframe
\* and object elements, strip on*= handlers and javascript:/vbscript:, trim
sanitizeString(s) == Sanitized[s]

\* a field name is refused when it is empty or not a string
isValidString(name) == name # NonString /\ name # ""

(***************************************************************************)
(* DataValidator.validateField                                             *)
(***************************************************************************)
\* ExcessiveLength with the length taken after trim()
ExcessiveLength_Trimmed(rule, s, sc) ==
    [ res |-> [FieldResult(FALSE, "EXCESSIVE_LENGTH") EXCEPT
                 !.actualLength = Len(Trim(s)),
                 !.maxLength = rule.maxLength,
                 !.scan = "safe"],
      stats |-> Incr(IncrType(sc.stats, "excessiveLength"),
                     "failedValidations"),
      li |-> sc.li ]

\* the return of the length check
ExcessiveLength(rule, s, sc) ==
    [ res |-> [FieldResult(FALSE, "EXCESSIVE_LENGTH") EXCEPT
                 !.actualLength = Len(s),
                 !.maxLength = rule.maxLength,
                 !.scan = "safe"],
      stats |-> Incr(IncrType(sc.stats, "excessiveLength"),
                     "failedValidations"),
      li |-> sc.li ]

\* validateField from the security check on: s is String(value) and sc what
\* performSecurityCheck(s) returned
ValidateString(rule, s, sc) ==
    IF ~sc.safe
    THEN [ res |-> [FieldResult(FALSE, "SECURITY_VIOLATION") EXCEPT
                      !.violationType = sc.violation,
                      !.scan = sc.violation],
           stats |-> Incr(Incr(sc.stats, "securityViolations"),
                          "failedValidations"),
           li |-> sc.li ]
    ELSE IF "maxLength" \in rule.props /\ Len(s) > rule.maxLength
    THEN ExcessiveLength(rule, s, sc)
    ELSE IF rule.required /\ Len(Trim(s)) = 0
    THEN [ res |-> [FieldResult(FALSE, "REQUIRED_FIELD") EXCEPT
                      !.scan = "safe"],
           stats |-> Incr(sc.stats, "failedValidations"), li |-> sc.li ]
    ELSE IF rule.pattern = "notRegExp" /\ Len(Trim(s)) > 0
    THEN \* rule.pattern.test is not a function: the catch block
         [ res |-> [FieldResult(FALSE, "VALIDATION_ERROR") EXCEPT
                      !.scan = "safe"],
           stats |-> Incr(sc.stats, "failedValidations"), li |-> sc.li ]
    ELSE IF rule.pattern # "" /\ Len(Trim(s)) > 0
            /\ ~PatternTest(rule.pattern, s)
    THEN [ res |-> [FieldResult(FALSE, "INVALID_FORMAT") EXCEPT
                      !.scan = "safe"],
           stats |-> Incr(IncrType(sc.stats, "invalidFormat"),
                          "failedValidations"),
           li |-> sc.li ]
    ELSE [ res |-> [FieldResult(TRUE, "") EXCEPT
                      !.sanitizedValue =
                          Str(IF rule.sanitize THEN sanitizeString(s)
                              ELSE s),
                      !.scan = "safe"],
           stats |-> Incr(sc.stats, "successfulValidations"),
           li |-> sc.li ]

\* ValidateWithRule without the failedValidations++ of the unknown field
ValidateWithRule_UnknownNotCounted(rule, st1, li, value, allowEmpty) ==
    IF rule.kind = "undefined"
    THEN [ res |-> FieldResult(FALSE, "UNKNOWN_FIELD"),
           stats |-> st1, li |-> li ]
    ELSE IF value.kind \in {"null", "undefined"}
    THEN IF rule.required /\ ~allowEmpty
         THEN [ res |-> FieldResult(FALSE, "REQUIRED_FIELD"),
                stats |-> Incr(st1, "failedValidations"), li |-> li ]
         ELSE [ res |-> [FieldResult(TRUE, "") EXCEPT
                           !.sanitizedValue = Str(<<>>)],
                stats |-> Incr(st1, "successfulValidations"), li |-> li ]
    ELSE ValidateString(rule, value.str,
                        performSecurityCheck(st1, li, value.str))

\* validateField from the rule lookup on: rule is validationRules[fieldName]
\* and st1 this.stats after totalValidations++ and lastValidation = new Date()
ValidateWithRule(rule, st1, li, value, allowEmpty) ==
    IF rule.kind = "undefined"
    THEN [ res |-> FieldResult(FALSE, "UNKNOWN_FIELD"),
           stats |-> Incr(st1, "failedValidations"), li |-> li ]
    ELSE IF value.kind \in {"null", "undefined"}
    THEN IF rule.required /\ ~allowEmpty
         THEN [ res |-> FieldResult(FALSE, "REQUIRED_FIELD"),
                stats |-> Incr(st1, "failedValidations"), li |-> li ]
         ELSE [ res |-> [FieldResult(TRUE, "") EXCEPT
                           !.sanitizedValue = Str(<<>>)],
                stats |-> Incr(st1, "successfulValidations"), li |-> li ]
    ELSE ValidateString(rule, value.str,
                        performSecurityCheck(st1, li, value.str))

\* = [res, stats, li]: the result, and this.stats and the lastIndex values
\* as the call leaves them
validateField(rules, st0, li, fieldName, value, allowEmpty) ==
    ValidateWithRule(rules[fieldName],
                     [st0 EXCEPT !.totalValidations = @ + 1,
                                 !.lastValidation = "date"],
                     li, value, allowEmpty)

(***************************************************************************)
(* DataValidator.validateObject                                            *)
(***************************************************************************)
\* data is an object, given by its own entries in insertion order (the
\* order of Object.entries), or null
DataObject(entries) == [kind |-> "object", entries |-> entries]
DataNull == [kind |-> "null", entries |-> <<>>]

HasOwn(data, field) ==
    \E i \in 1..Len(data.entries) : data.entries[i].name = field

\* field in data: own properties and those of Object.prototype
InData(data, field) == HasOwn(data, field) \/ field \in InheritedNames

\* data[field] === null || data[field] === undefined
IsNullish(data, field) ==
    IF HasOwn(data, field)
    THEN LET i == CHOOSE i \in 1..Len(data.entries) :
                      data.entries[i].name = field
         IN  data.entries[i].value.kind \in {"null", "undefined"}
    ELSE field \notin InheritedNames

\* the tally of validateField returns kept beside the model: how many
\* returned valid, how many did not, how many SECURITY_VIOLATION
Tally(h, res) ==
    [ valid |-> h.valid + (IF res.valid THEN 1 ELSE 0),
      invalid |-> h.invalid + (IF res.valid THEN 0 ELSE 1),
      security |-> h.security
                     + (IF res.error = "SECURITY_VIOLATION" THEN 1 ELSE 0) ]

\* the first for loop: one error for each required field that is missing
RECURSIVE RequiredLoop(_, _, _, _)
RequiredLoop(acc, data, requiredFields, k) ==
    IF k > Len(requiredFields) THEN acc
    ELSE RequiredLoop(
           IF ~InData(data, requiredFields[k])
                  \/ IsNullish(data, requiredFields[k])
           THEN [acc EXCEPT
                   !.valid = FALSE,
                   !.errors = Append(@,
                       [ field |-> requiredFields[k],
                         error |-> "MISSING_REQUIRED_FIELD",
                         violationType |-> "" ])]
           ELSE acc,
           data, requiredFields, k + 1)

\* the body of the second for loop: r is what validateField returned for
\* the entry e
EntryStep(acc, e, r) ==
    [acc EXCEPT
       !.stats = r.stats,
       !.li = r.li,
       !.tally = Tally(@, r.res),
       !.fieldResults = Append(@, [field |-> e.name, res |-> r.res]),
       !.sanitizedData =
           IF r.res.valid
           THEN Append(@, [name |-> e.name, value |-> r.res.sanitizedValue])
           ELSE @,
       !.valid = IF r.res.valid THEN @ ELSE FALSE,
       !.errors =
           IF r.res.valid THEN @
           ELSE Append(@, [ field |-> e.name, error |-> r.res.error,
                            violationType |-> r.res.violationType ])]

\* the second for loop: validateField on every entry of data
RECURSIVE EntriesLoop(_, _, _, _)
EntriesLoop(rules, acc, entries, k) ==
    IF k > Len(entries) THEN acc
    ELSE EntriesLoop(rules,
           EntryStep(acc, entries[k],
                     validateField(rules, acc.stats, acc.li,
                                   entries[k].name, entries[k].value,
                                   FALSE)),
           entries, k + 1)

\* JSON.stringify of a string value: the characters between quotes, the
\* quote and the backslash escaped
RECURSIVE Quoted(_, _)
Quoted(s, k) ==
    IF k > Len(s) THEN <<>>
    ELSE (IF s[k] \in {"\"", "\\"} THEN <<"\\", s[k]>> ELSE <<s[k]>>)
             \o Quoted(s, k + 1)

JSONValue(v) ==
    IF v.kind = "string" THEN <<"\"">> \o Quoted(v.str, 1) \o <<"\"">>
    ELSE <<"null">>

\* JSON.stringify(results.sanitizedData): the properties in the order in
\* which they were assigned, a property holding undefined left out
RECURSIVE JSONMembers(_, _, _)
JSONMembers(obj, k, first) ==
    IF k > Len(obj) THEN <<>>
    ELSE IF obj[k].value.kind = "undefined"
         THEN JSONMembers(obj, k + 1, first)
         ELSE (IF first THEN <<>> ELSE <<",">>)
                  \o <<"\"", obj[k].name, "\"", ":">>
                  \o JSONValue(obj[k].value)
                  \o JSONMembers(obj, k + 1, FALSE)

JSONStringify(obj) == <<"{">> \o JSONMembers(obj, 1, TRUE) \o <<"}">>

\* hashManager.generateHash: a digest, which is the same for the same text
\* and stands for that text alone
generateHash(serialized) == [defined |-> TRUE, of |-> serialized]

\* results.dataHash of the object the catch block returns: none
NoHash == [defined |-> FALSE, of |-> <<>>]

\* results.dataHash = generateHash(JSON.stringify(results.sanitizedData))
WithDataHash(acc) ==
    [acc EXCEPT !.dataHash = generateHash(JSONStringify(acc.sanitizedData))]

\* = the results object with, beside it, stats, li and tally as the call
\* leaves them.  Reading a property of null throws, which the catch block
\* turns into the VALIDATION_ERROR result.
validateObject(rules, st, li, h, data, requiredFields) ==
    LET start == [ valid |-> TRUE, errors |-> <<>>, sanitizedData |-> <<>>,
                   fieldResults |-> <<>>, stats |-> st, li |-> li,
                   tally |-> h, dataHash |-> NoHash ]
    IN  IF data.kind = "null"
        THEN [start EXCEPT
                !.valid = FALSE,
                !.errors = << [ field |-> "", error |-> "VALIDATION_ERROR",
                                violationType |-> "" ] >>]
        ELSE WithDataHash(
                 EntriesLoop(rules,
                             RequiredLoop(start, data, requiredFields, 1),
                             data.entries, 1))

(***************************************************************************)
(* DataValidator.addValidationRule, resetStats, getValidationStats         *)
(***************************************************************************)
\* a rule that is not an object: prop in rule throws
RuleNull ==
    [ kind |-> "null", props |-> {}, pattern |-> "", maxLength |-> 0,
      required |-> FALSE, sanitize |-> FALSE ]

requiredProps == {"maxLength", "required", "sanitize", "description"}

\* addValidationRule with sanitize left out of requiredProps
addValidationRule_SkipsSanitize(rules, fieldName, rule) ==
    IF ~isValidString(fieldName) THEN [ok |-> FALSE, rules |-> rules]
    ELSE IF rule.kind = "null" THEN [ok |-> FALSE, rules |-> rules]
    ELSE IF ~((requiredProps \ {"sanitize"}) \subseteq rule.props)
    THEN [ok |-> FALSE, rules |-> rules]
    ELSE [ok |-> TRUE, rules |-> [rules EXCEPT ![fieldName] = rule]]

\* = [ok, rules]: the value returned and validationRules after the call
addValidationRule(rules, fieldName, rule) ==
    IF ~isValidString(fieldName) THEN [ok |-> FALSE, rules |-> rules]
    ELSE IF rule.kind = "null" THEN [ok |-> FALSE, rules |-> rules]
    ELSE IF ~(requiredProps \subseteq rule.props)
    THEN [ok |-> FALSE, rules |-> rules]
    ELSE [ok |-> TRUE, rules |-> [rules EXCEPT ![fieldName] = rule]]

\* resetStats without lastValidation: null
resetStats_KeepsLastValidation ==
    [ totalValidations |-> 0, successfulValidations |-> 0,
      failedValidations |-> 0, securityViolations |-> 0,
      lastValidation |-> stats.lastValidation,
      violationTypes |->
        [ sqlInjection |-> 0, osCommand |-> 0, xss |-> 0,
          invalidFormat |-> 0, excessiveLength |-> 0 ] ]

\* this.stats after resetStats
resetStats ==
    [ totalValidations |-> 0, successfulValidations |-> 0,
      failedValidations |-> 0, securityViolations |-> 0,
      lastValidation |-> "null",
      violationTypes |->
        [ sqlInjection |-> 0, osCommand |-> 0, xss |-> 0,
          invalidFormat |-> 0, excessiveLength |-> 0 ] ]

\* (part / total * 100).toFixed(2) + '%', in hundredths of a percent
Rate(part, total) ==
    IF total > 0 THEN (2 * 10000 * part + total) \div (2 * total) ELSE 0

\* { ...this.stats, successRate, securityViolationRate }
getValidationStats(st) ==
    [ totalValidations |-> st.totalValidations,
      successfulValidations |-> st.successfulValidations,
      failedValidations |-> st.failedValidations,
      securityViolations |-> st.securityViolations,
      lastValidation |-> st.lastValidation,
      violationTypes |-> st.violationTypes,
      successRate |-> Rate(st.successfulValidations, st.totalValidations),
      securityViolationRate |->
          Rate(st.securityViolations, st.totalValidations) ]

(***************************************************************************)
(* ICCardValidator (SecurityConfig.js).  Issuers and regions are written   *)
(* in Latin letters.                                                       *)
(***************************************************************************)
DigitValue ==
    ("0" :> 0) @@ ("1" :> 1) @@ ("2" :> 2) @@ ("3" :> 3) @@ ("4" :> 4) @@
    ("5" :> 5) @@ ("6" :> 6) @@ ("7" :> 7) @@ ("8" :> 8) @@ ("9" :> 9)

\* config.pattern.test(cardNumber); an expression is named by what it
\* accepts
CardPatternTest(pattern, s) ==
    CASE pattern = "digits16" ->         \* /^[0-9]{16}$/
           Len(s) = 16 /\ AllIn(s, Digits)
      [] pattern = "digits10to12" ->     \* /^[0-9]{10,12}$/
           Len(s) \in 10..12 /\ AllIn(s, Digits)
      [] pattern = "digits8to14" ->      \* /^[0-9]{8,14}$/
           Len(s) \in 8..14 /\ AllIn(s, Digits)
      [] pattern = "digits15" ->         \* /^[0-9]{15}$/ (a custom format)
           Len(s) = 15 /\ AllIn(s, Digits)

\* one entry of cardPatterns.  pattern is "" when the entry has none;
\* checksum is FALSE also when the entry has none (undefined is falsy)
CardFormat(type, pattern, checksum, issuer, regions) ==
    [ type |-> type, pattern |-> pattern, checksum |-> checksum,
      issuer |-> issuer, regions |-> regions ]

\* this.cardPatterns after the constructor, in the order of its keys
InitialCardPatterns ==
    << CardFormat("SUICA", "digits16", TRUE, "JR East, Kanto railways",
                  {"Kanto", "Tokai", "Sendai", "Niigata"}),
       CardFormat("ICOCA", "digits16", TRUE, "JR West, Kansai railways",
                  {"Kansai", "Chugoku", "Shikoku"}),
       CardFormat("MANACA", "digits16", TRUE,
                  "Nagoya City Transportation Bureau, Meitetsu",
                  {"Nagoya", "Tokai"}),
       CardFormat("TOICA", "digits16", TRUE, "JR Central",
                  {"Tokai", "Shizuoka"}),
       CardFormat("SUGOCA", "digits16", TRUE,
                  "JR Kyushu, Fukuoka City Transportation Bureau",
                  {"Kyushu", "Fukuoka"}),
       CardFormat("KITACA", "digits16", TRUE,
                  "JR Hokkaido, Sapporo City Transportation Bureau",
                  {"Hokkaido", "Sapporo"}),
       CardFormat("HAYAKAKEN", "digits16", TRUE,
                  "Fukuoka City Transportation Bureau", {"Fukuoka"}),
       CardFormat("NIMOCA", "digits16", TRUE, "Nishitetsu",
                  {"Kyushu", "Fukuoka", "Kumamoto"}),
       CardFormat("CORPORATE", "digits10to12", FALSE, "companies",
                  {"nationwide"}),
       CardFormat("STUDENT", "digits8to14", FALSE, "schools",
                  {"nationwide"}) >>

\* this.stats of an ICCardValidator after the constructor
InitialCardStats ==
    [ validationCount |-> 0, validCards |-> 0, invalidCards |-> 0,
      suspiciousAttempts |-> 0, lastValidation |-> "null" ]

\* detectCardType returned null
NoCardType == CardFormat("null", "", FALSE, "", {})

\* the for loop of detectCardType from the k-th entry on: the first entry
\* whose pattern accepts the number; test() of an entry without a pattern
\* throws, and the catch block returns null
RECURSIVE DetectLoop(_, _, _)
DetectLoop(patterns, cardNumber, k) ==
    IF k > Len(patterns) THEN NoCardType
    ELSE IF patterns[k].pattern = "" THEN NoCardType
    ELSE IF CardPatternTest(patterns[k].pattern, cardNumber)
    THEN patterns[k]
    ELSE DetectLoop(patterns, cardNumber, k + 1)

detectCardType(patterns, cardNumber) == DetectLoop(patterns, cardNumber, 1)

\* the for loop of validateChecksum: the sum from digit i down to the
\* first, alternate telling whether digit i is doubled
RECURSIVE LuhnSum(_, _, _)
\* the doubling without the subtraction of 9
LuhnDigit_NoSubtract(digit, alternate) ==
    IF alternate THEN 2 * digit ELSE digit

LuhnDigit(digit, alternate) ==
    IF alternate THEN (IF 2 * digit > 9 THEN 2 * digit - 9 ELSE 2 * digit)
    ELSE digit

LuhnSum(cardNumber, i, alternate) ==
    IF i < 1 THEN 0
    ELSE LuhnDigit(DigitValue[cardNumber[i]], alternate)
             + LuhnSum(cardNumber, i - 1, ~alternate)

validateChecksum(cardNumber) ==
    LuhnSum(cardNumber, Len(cardNumber), FALSE) % 10 = 0

\* n mask characters
Stars(n) == [k \in 1..n |-> "*"]

\* = [threw, str]: '*'.repeat(n) of a negative n throws a RangeError
maskCardNumber(cardNumber) ==
    IF Len(cardNumber) < 4
    THEN [threw |-> FALSE, str |-> Stars(4)]
    ELSE IF Len(cardNumber) - 8 < 0
    THEN [threw |-> TRUE, str |-> <<>>]
    ELSE [ threw |-> FALSE,
           str |-> SubSeq(cardNumber, 1, 4) \o Stars(Len(cardNumber) - 8)
                     \o SubSeq(cardNumber, Len(cardNumber) - 3,
                               Len(cardNumber)) ]

\* The object validateCardNumber returns.  A property the object does not
\* have is Undefined, "", {} or -1; threw tells that the call ended in an
\* exception instead of a return.
CardResult(valid, error) ==
    [ valid |-> valid, error |-> error, cardType |-> "", issuer |-> "",
      regions |-> {}, number |-> Undefined, rawNumber |-> Undefined,
      checksum |-> "", security |-> "", actualLength |-> -1,
      threw |-> FALSE ]

\* this.stats.<counter>++ of an ICCardValidator
CardIncr(st, counter) == [st EXCEPT ![counter] = @ + 1]

\* validateCardNumber without its try and catch: the exception leaves the
\* call
CardCatch_Rethrows(st) ==
    [ res |-> [CardResult(FALSE, "") EXCEPT !.threw = TRUE], stats |-> st ]

\* the catch block of validateCardNumber; st is this.stats when the
\* exception is raised
CardCatch(st) ==
    [ res |-> [CardResult(FALSE, "VALIDATION_ERROR") EXCEPT
                 !.security = "SYSTEM_ERROR"],
      stats |-> CardIncr(st, "suspiciousAttempts") ]

\* InputValidator.isValidString of a string given by its characters
isValidText(s) == s # <<>>

\* validateCardNumber from the valid return on: m is what maskCardNumber
\* answers for the number (the logger call evaluates it first)
CardAccepted(st, number, cardType, m) ==
    IF m.threw THEN CardCatch(CardIncr(st, "validCards"))
    ELSE [ res |-> [CardResult(TRUE, "") EXCEPT
                      !.cardType = cardType.type,
                      !.issuer = cardType.issuer,
                      !.regions = cardType.regions,
                      !.number = Str(m.str),
                      !.rawNumber = Str(number),
                      !.checksum = "true"],
           stats |-> CardIncr(st, "validCards") ]

\* validateCardNumber from the checksum on
CardChecked(st, number, cardType, m) ==
    IF cardType.checksum /\ ~validateChecksum(number)
    THEN [ res |-> [CardResult(FALSE, "INVALID_CHECKSUM") EXCEPT
                      !.cardType = cardType.type],
           stats |-> CardIncr(st, "invalidCards") ]
    ELSE CardAccepted(st, number, cardType, m)

\* the UNKNOWN_CARD_TYPE return: invalidCards++ comes before the object
\* literal that calls maskCardNumber
CardUnknown(st, m) ==
    IF m.threw THEN CardCatch(CardIncr(st, "invalidCards"))
    ELSE [ res |-> [CardResult(FALSE, "UNKNOWN_CARD_TYPE") EXCEPT
                      !.number = Str(m.str)],
           stats |-> CardIncr(st, "invalidCards") ]

\* validateCardNumber from detectCardType on: cardType is what it returned
CardDetected(st, number, cardType, m) ==
    IF cardType.type = "null" THEN CardUnknown(st, m)
    ELSE CardChecked(st, number, cardType, m)

\* validateCardNumber from the checks of the sanitized number on
ValidateSanitized(patterns, st1, number) ==
    IF ~isValidText(number)
    THEN [ res |-> [CardResult(FALSE, "INVALID_INPUT") EXCEPT
                      !.security = "SUSPICIOUS_INPUT"],
           stats |-> CardIncr(st1, "suspiciousAttempts") ]
    ELSE IF Len(number) < 4 \/ Len(number) > 20
    THEN [ res |-> [CardResult(FALSE, "INVALID_LENGTH") EXCEPT
                      !.actualLength = Len(number)],
           stats |-> CardIncr(st1, "invalidCards") ]
    ELSE IF ~AllIn(number, Digits)
    THEN [ res |-> CardResult(FALSE, "INVALID_FORMAT"),
           stats |-> CardIncr(st1, "invalidCards") ]
    ELSE CardDetected(st1, number, detectCardType(patterns, number),
                      maskCardNumber(number))

\* = [res, stats]: the result, and this.stats as the call leaves it.  The
\* sanitizer answers '' for a value that is not a string.
validateCardNumber(patterns, st0, cardNumber) ==
    ValidateSanitized(patterns,
                      [st0 EXCEPT !.validationCount = @ + 1,
                                  !.lastValidation = "date"],
                      IF cardNumber.kind = "string"
                      THEN sanitizeString(cardNumber.str) ELSE <<>>)

\* a config handed to updateValidationRule: props are the properties it has
CardConfig(props, pattern, checksum, issuer, regions) ==
    [ kind |-> "object", props |-> props, pattern |-> pattern,
      checksum |-> checksum, issuer |-> issuer, regions |-> regions ]

\* a config that is null: config.pattern throws
CardConfigNull ==
    [ kind |-> "null", props |-> {}, pattern |-> "", checksum |-> FALSE,
      issuer |-> "", regions |-> {} ]

\* { ...this.cardPatterns[cardType], ...config }
MergedFormat(old, cardType, config) ==
    [ type |-> cardType,
      pattern |-> IF "pattern" \in config.props THEN config.pattern
                  ELSE old.pattern,
      checksum |-> IF "checksum" \in config.props THEN config.checksum
                   ELSE old.checksum,
      issuer |-> IF "issuer" \in config.props THEN config.issuer
                 ELSE old.issuer,
      regions |-> IF "regions" \in config.props THEN config.regions
                  ELSE old.regions ]

\* the place of the key cardType in cardPatterns, 0 when it is no key
IndexOfType(patterns, cardType) ==
    IF \E k \in 1..Len(patterns) : patterns[k].type = cardType
    THEN CHOOSE k \in 1..Len(patterns) : patterns[k].type = cardType
    ELSE 0

\* this.cardPatterns[cardType] = merged: an existing key keeps its place,
\* a new key comes last
AssignFormat(patterns, cardType, config, k) ==
    IF k > 0
    THEN [patterns EXCEPT ![k] = MergedFormat(patterns[k], cardType, config)]
    ELSE Append(patterns, MergedFormat(NoCardType, cardType, config))

\* = [ok, patterns]: the value returned and cardPatterns after the call
updateValidationRule(patterns, cardType, config) ==
    IF ~isValidString(cardType) THEN [ok |-> FALSE, patterns |-> patterns]
    ELSE IF config.kind = "null" THEN [ok |-> FALSE, patterns |-> patterns]
    ELSE IF "pattern" \in config.props /\ config.pattern = "notRegExp"
    THEN [ok |-> FALSE, patterns |-> patterns]
    ELSE [ ok |-> TRUE,
           patterns |-> AssignFormat(patterns, cardType, config,
                                     IndexOfType(patterns, cardType)) ]

\* this.stats of an ICCardValidator after resetStats
cardResetStats ==
    [ validationCount |-> 0, validCards |-> 0, invalidCards |-> 0,
      suspiciousAttempts |-> 0, lastValidation |-> "null" ]

(***************************************************************************)
(* InputValidator.validateBasicInput (security/InputValidator.js) and the   *)
(* TransportationManager that calls it                                     *)
(***************************************************************************)
\* this.config.dangerousPatterns, in the order of the array; all carry the
\* g flag
dangerousPatterns ==
    <<"script", "javascript", "handler", "dataHtml", "vbscript">>

\* the for loop over dangerousPatterns from the k-th expression on; e is
\* what test() of the k-th expression left in its lastIndex
RECURSIVE DangerousLoop(_, _, _, _)
DangerousStep(patterns, s, li, k, e) ==
    IF e > 0 THEN [hit |-> TRUE, li |-> [li EXCEPT ![k] = e]]
    ELSE DangerousLoop(patterns, s, [li EXCEPT ![k] = e], k + 1)

DangerousLoop(patterns, s, li, k) ==
    IF k > Len(patterns) THEN [hit |-> FALSE, li |-> li]
    ELSE DangerousStep(patterns, s, li, k, Exec(patterns[k], s, li[k]))

\* the errors validateBasicInput pushes
EmptyInput == "the input is empty"
TooLong == "the input is too long"
DangerousPattern == "a dangerous pattern was detected"

\* validateBasicInput from the length check on; d is what the loop over
\* dangerousPatterns found
BasicChecked(input, maxInputLength, d) ==
    [ res |-> [ valid |-> Len(input) <= maxInputLength /\ ~d.hit,
                errors |-> (IF Len(input) > maxInputLength
                            THEN <<TooLong>> ELSE <<>>)
                           \o (IF d.hit THEN <<DangerousPattern>> ELSE <<>>),
                sanitized |-> sanitizeInput(input) ],
      li |-> d.li ]

\* = [res, li]: the object returned and the lastIndex values the call
\* leaves; maxInputLength is config.maxInputLength after the options were
\* merged in
validateBasicInput(li, input, maxInputLength) ==
    IF input.kind \in {"null", "undefined"}
    THEN [ res |-> [valid |-> FALSE, errors |-> <<EmptyInput>>,
                    sanitized |-> <<>>],
           li |-> li ]
    ELSE BasicChecked(input.str, maxInputLength,
                      DangerousLoop(dangerousPatterns, input.str, li, 1))

\* obj.isValid: undefined, which is falsy, for an object without that
\* property
ReadIsValid(obj) == IF "isValid" \in DOMAIN obj THEN obj.isValid ELSE FALSE

\* securityConfig.allowedTransportationIds
allowedTransportationIds ==
    { <<"j","r","_","t","o","k","a","i">>,
      <<"k","i","n","t","e","t","s","u">>,
      <<"n","a","g","o","y","a","_","s","u","b","w","a","y">>,
      <<"m","e","i","t","e","t","s","u">>,
      <<"n","a","g","o","y","a","_","b","u","s">>,
      <<"m","e","i","t","e","t","s","u","_","b","u","s">> }

\* securityConfig.dangerousPatterns of the TransportationManager
tmDangerousPatterns ==
    <<"sqlChars", "dashes", "blockComment", "scriptOpen", "javascript">>

\* /^[a-zA-Z0-9\-_]+$/
allowedPattern(s) ==
    s # <<>> /\ AllIn(s, Letters \cup Digits \cup {"-", "_"})

\* validateTransportationId after the basic validation passed; d is what
\* the loop over the manager's dangerousPatterns found
IdChecked(id, li, d) ==
    [ res |-> IF d.hit
              THEN [isValid |-> FALSE, error |-> "forbidden characters"]
              ELSE IF id \notin allowedTransportationIds
              THEN [isValid |-> FALSE, error |-> "id not supported"]
              ELSE [isValid |-> TRUE, error |-> ""],
      li |-> li, tl |-> d.li ]

\* validateTransportationId from the test of basicValidation.isValid on;
\* the options of the call (type, required, minLength, maxLength) name no
\* property that validateBasicInput reads
IdValidated(id, tl, basic) ==
    IF ~ReadIsValid(basic.res)
    THEN [ res |-> [isValid |-> FALSE, error |-> "malformed id"],
           li |-> basic.li, tl |-> tl ]
    ELSE IF ~allowedPattern(id.str)
    THEN [ res |-> [isValid |-> FALSE, error |-> "characters not allowed"],
           li |-> basic.li, tl |-> tl ]
    ELSE IdChecked(id.str, basic.li,
                   DangerousLoop(tmDangerousPatterns, id.str, tl, 1))

\* = [res, li, tl]: the object returned, and the lastIndex values of the
\* validator's and of the manager's expressions as the call leaves them
validateTransportationId(li, tl, id) ==
    IdValidated(id, tl, validateBasicInput(li, id, 1000))

\* getTransportationData up to the data lookup: it throws unless the id
\* validation answers isValid
getTransportationData(li, tl, id) ==
    [ lookup |-> validateTransportationId(li, tl, id).res.isValid,
      li |-> validateTransportationId(li, tl, id).li,
      tl |-> validateTransportationId(li, tl, id).tl ]

(***************************************************************************)
(* ICLossReportForm: the four-step report form                             *)
(***************************************************************************)
totalSteps == 4

\* lastSubmission before any submitData call
NoSubmission == [reached |-> FALSE, step |-> 0, valid |-> FALSE]

\* validateCurrentStep(): false when the form holds no element #step-n;
\* otherwise whether every required field of that step passes
\* validateField.  The one required field of step 4 is the check box
\* #agree-terms, whose value is "on" whether or not it is checked.
validateCurrentStep(step, valid) ==
    IF step \notin 1 .. totalSteps THEN FALSE
    ELSE IF step = 4 THEN TRUE
    ELSE valid[step]

\* handleSubmit: if (this.isSubmitting) return;
SubmitGuard_Absent(submitting) == FALSE

SubmitGuard(submitting) == submitting

\* s without its i-th element
RemoveAt(s, i) ==
    [ k \in 1 .. (Len(s) - 1) |-> IF k < i THEN s[k] ELSE s[k + 1] ]

(***************************************************************************)
(* SecurityConfig                                                          *)
(***************************************************************************)
\* defaultConfig.hash, of which the model keeps iterations and saltLength
DefaultHash == [iterations |-> 100000, saltLength |-> 32]

\* an externalConfig: null, or an object holding the sections named, whose
\* hash section holds the properties named
ExternalConfig(sections, hashProps, iterations, saltLength, timeoutMinutes) ==
    [ kind |-> "object", sections |-> sections, hashProps |-> hashProps,
      iterations |-> iterations, saltLength |-> saltLength,
      timeoutMinutes |-> timeoutMinutes ]

ExternalConfigNull ==
    [ kind |-> "null", sections |-> {}, hashProps |-> {}, iterations |-> 0,
      saltLength |-> 0, timeoutMinutes |-> 0 ]

\* config.hash.<prop> && config.hash.<prop> < least: a property that is
\* absent reads as undefined and 0 is falsy
TooSmall(c, prop, value, least) ==
    /\ "hash" \in c.sections
    /\ prop \in c.hashProps
    /\ value # 0
    /\ value < least

\* _validateConfig(config).valid
ValidConfig(c) ==
    /\ ~TooSmall(c, "iterations", c.iterations, 100000)
    /\ ~TooSmall(c, "saltLength", c.saltLength, 16)
    /\ ~("session" \in c.sections /\ c.timeoutMinutes > 120)

\* the hash section of _mergeConfig(this.defaultConfig, externalConfig)
MergedHash(c) ==
    [ iterations |->
          IF "hash" \in c.sections /\ "iterations" \in c.hashProps
          THEN c.iterations ELSE DefaultHash.iterations,
      saltLength |->
          IF "hash" \in c.sections /\ "saltLength" \in c.hashProps
          THEN c.saltLength ELSE DefaultHash.saltLength ]

\* loadConfig(externalConfig) with this.config.hash = hash: what it returns
\* and what this.config.hash is afterwards.  Reading null.hash throws, and
\* the catch block returns false.
loadConfig(hash, c) ==
    IF c.kind = "null" THEN [ok |-> FALSE, hash |-> hash]
    ELSE IF ~ValidConfig(c) THEN [ok |-> FALSE, hash |-> hash]
    ELSE [ok |-> TRUE, hash |-> MergedHash(c)]

\* no master password was given to the constructor
NoPassword == "null"

SecureKeys == {"security_pepper", "api_key"}

\* localStorage.getItem returns null
NoEntry == [stored |-> FALSE, plain |-> "", password |-> ""]

\* no saveSecureConfig call has returned true
NotSaved == [made |-> FALSE, key |-> "", value |-> ""]

\* a value that a method returns, or null
ReturnNull == [null |-> TRUE, value |-> ""]

ReturnValue(v) == [null |-> FALSE, value |-> v]

\* saveSecureConfig(configKey, value): what it returns and what the storage
\* holds afterwards.  The encrypted value goes into the local object
\* configData, which the method drops when it returns.
saveSecureConfig(password, store, configKey, value) ==
    [ ok |-> password # NoPassword, storage |-> store ]

\* loadSecureConfig(configKey): null without master password, without a
\* stored entry, and when the entry does not decrypt under the password
loadSecureConfig(password, store, configKey) ==
    IF password = NoPassword THEN ReturnNull
    ELSE IF ~store[configKey].stored THEN ReturnNull
    ELSE IF store[configKey].password # password THEN ReturnNull
    ELSE ReturnValue(store[configKey].plain)

\* getPepper(): loadSecureConfig('security_pepper') || the pepper that
\* _generateDefaultPepper draws at random
getPepper(password, store, random) ==
    IF /\ ~loadSecureConfig(password, store, "security_pepper").null
       /\ loadSecureConfig(password, store, "security_pepper").value # ""
    THEN loadSecureConfig(password, store, "security_pepper").value
    ELSE random

(***************************************************************************)
(* The validator as a state machine                                        *)
(***************************************************************************)
\* validateField calls that the model makes between two resets
MaxCalls == 2

\* violations that direct calls of performSecurityCheck report between two
\* resets
MaxScans == 1

ValueInputs == {Null, Undefined} \cup {Str(s) : s \in StringInputs}

FieldInputs ==
    { "employeeId", "lossTime", "description", "customId", "constructor",
      "nonexistent" }

\* the descriptors the model's callers register
RuleInputs ==
    { Rule("customId", 8, TRUE, TRUE),
      Rule("", 2, FALSE, FALSE),
      [Rule("", 8, FALSE, TRUE) EXCEPT !.props = {"description"}],
      [Rule("", 8, FALSE, TRUE) EXCEPT !.props = @ \ {"sanitize"}],
      RuleNull }

RuleNameInputs == {"customId", "", NonString}

\* the objects the model's callers validate: up to two entries
ObjectFieldInputs == {"employeeId", "lossTime", "constructor"}

ObjectValueInputs ==
    { Null, Str(<<"1","2","3","4","5","6">>), Str(<<"o","n","n","=">>) }

EntryInputs ==
    { [name |-> n, value |-> v] : n \in ObjectFieldInputs,
                                   v \in ObjectValueInputs }

DataInputs ==
    {DataNull, DataObject(<<>>)}
        \cup {DataObject(<<e>>) : e \in EntryInputs}
        \cup {DataObject(<<p[1], p[2]>>) :
                p \in {q \in EntryInputs \X EntryInputs :
                         q[1].name = "employeeId" /\ q[2].name # q[1].name}}

RequiredFieldsInputs ==
    { <<>>, <<"employeeId", "lossTime">>, <<"constructor">> }

Init ==
    /\ validationRules = InitialRules
    /\ stats = InitialStats
    /\ xssLastIndex = InitialLastIndex
    /\ call = "constructor"
    /\ tally = [valid |-> 0, invalid |-> 0, security |-> 0]
    /\ cardPatterns = InitialCardPatterns
    /\ cardStats = InitialCardStats
    /\ cardCall = "constructor"
    /\ text = <<>>
    /\ passes = 0
    /\ masterPassword = "test_master_password"
    /\ configHash = DefaultHash
    /\ loadReturn = "not called"
    /\ storage = [key \in SecureKeys |-> NoEntry]
    /\ saved = NotSaved
    /\ peppers = <<>>
    /\ currentStep = 1
    /\ isSubmitting = FALSE
    /\ stepValid = [k \in 1 .. 3 |-> FALSE]
    /\ agreeTerms = FALSE
    /\ nextCalls = <<>>
    /\ submitCalls = <<>>
    /\ lastSubmission = NoSubmission
    /\ formCall = "constructor"
    /\ dangerousLastIndex = <<0, 0, 0, 0, 0>>
    /\ tmLastIndex = <<0, 0, 0, 0, 0>>
    /\ inputCalls = 0
    /\ inputCall = "constructor"

\* the call leaves stats, the lastIndex values and the tally as r holds them
Left(r) ==
    /\ stats' = r.stats
    /\ xssLastIndex' = r.li
    /\ tally' = r.tally

\* performSecurityCheck returned r
Scanned(r) ==
    /\ stats' = r.stats
    /\ xssLastIndex' = r.li

\* validateField returned r
Returned(r) ==
    /\ stats' = r.stats
    /\ xssLastIndex' = r.li
    /\ tally' = Tally(tally, r.res)

ValidateField ==
    \E fieldName \in FieldInputs, value \in ValueInputs,
       allowEmpty \in BOOLEAN :
        /\ stats.totalValidations < MaxCalls
        /\ Returned(validateField(validationRules, stats, xssLastIndex,
                                  fieldName, value, allowEmpty))
        /\ call' = "validateField"
        /\ UNCHANGED <<validationRules, cardVars, textVars, inputVars, formVars, configVars>>

ValidateObject ==
    \E data \in DataInputs, requiredFields \in RequiredFieldsInputs :
        /\ stats.totalValidations + Len(data.entries) <= MaxCalls
        /\ Left(validateObject(validationRules, stats, xssLastIndex, tally,
                               data, requiredFields))
        /\ call' = "validateObject"
        /\ UNCHANGED <<validationRules, cardVars, textVars, inputVars, formVars, configVars>>

PerformSecurityCheck ==
    \E s \in StringInputs :
        /\ stats.violationTypes.sqlInjection + stats.violationTypes.osCommand
               + stats.violationTypes.xss - stats.securityViolations
                   < MaxScans
        /\ Scanned(performSecurityCheck(stats, xssLastIndex, s))
        /\ call' = "performSecurityCheck"
        /\ UNCHANGED <<validationRules, tally, cardVars, textVars, inputVars, formVars, configVars>>

AddValidationRule ==
    \E fieldName \in RuleNameInputs, rule \in RuleInputs :
        /\ validationRules' =
               addValidationRule(validationRules, fieldName, rule).rules
        /\ call' = "addValidationRule"
        /\ UNCHANGED <<stats, xssLastIndex, tally, cardVars, textVars, inputVars, formVars, configVars>>

ResetStats ==
    /\ stats' = resetStats
    /\ tally' = [valid |-> 0, invalid |-> 0, security |-> 0]
    /\ call' = "resetStats"
    /\ UNCHANGED <<validationRules, xssLastIndex, cardVars, textVars, inputVars, formVars, configVars>>

\* validateCardNumber calls that the model makes between two resets
MaxCardCalls == 2

CardInputs == {Null, Undefined} \cup {Str(s) : s \in CardStrings}

\* the card types and configs the model's callers update
CardTypeInputs == {"SUICA", "NEWCARD", ""}

CardConfigInputs ==
    { CardConfig({"pattern", "length", "checksum", "description", "issuer",
                  "regions"},
                 "digits15", TRUE, "a new issuer", {"nationwide"}),
      CardConfig({"description"}, "", FALSE, "", {}),
      CardConfig({"pattern"}, "notRegExp", FALSE, "", {}),
      CardConfigNull }

ValidateCardNumber ==
    \E cardNumber \in CardInputs :
        /\ cardStats.validationCount < MaxCardCalls
        /\ cardStats' =
               validateCardNumber(cardPatterns, cardStats, cardNumber).stats
        /\ cardCall' = "validateCardNumber"
        /\ UNCHANGED <<cardPatterns, dataVars, textVars, inputVars, formVars, configVars>>

UpdateValidationRule ==
    \E cardType \in CardTypeInputs, config \in CardConfigInputs :
        /\ cardPatterns' =
               updateValidationRule(cardPatterns, cardType, config).patterns
        /\ cardCall' = "updateValidationRule"
        /\ UNCHANGED <<cardStats, dataVars, textVars, inputVars, formVars, configVars>>

CardResetStats ==
    /\ cardStats' = cardResetStats
    /\ cardCall' = "resetStats"
    /\ UNCHANGED <<cardPatterns, dataVars, textVars, inputVars, formVars, configVars>>

CardNext ==
    \/ ValidateCardNumber
    \/ UpdateValidationRule
    \/ CardResetStats

\* an ICCardValidator under any sequence of calls of its methods
CardSpec == Init /\ [][CardNext]_vars

\* the pieces the strings handed to the sanitizer are made of
Tokens ==
    { <<"<","s","c","r">>,
      <<"<","s","c","r","i","p","t",">","<","/","s","c","r","i","p","t",">">>,
      <<"i","p","t",">">>,
      <<"j","a","v","a">>,
      <<"j","a","v","a","s","c","r","i","p","t",":">>,
      <<"s","c","r","i","p","t",":">>,
      <<"o","n","x">>,
      <<"=","y">>,
      <<"o","n","l","o","a","d","=">> }

\* pieces in one string
MaxTokens == 3

\* times the sanitizer is applied to what it returned
MaxPasses == 2

RECURSIVE Concat(_)
Concat(pieces) ==
    IF pieces = <<>> THEN <<>> ELSE Head(pieces) \o Concat(Tail(pieces))

SanitizeInputs ==
    UNION { {Concat(pieces) : pieces \in [1..n -> Tokens]} :
              n \in 0..MaxTokens }

SanitizeInit ==
    /\ validationRules = InitialRules
    /\ stats = InitialStats
    /\ xssLastIndex = InitialLastIndex
    /\ call = "constructor"
    /\ tally = [valid |-> 0, invalid |-> 0, security |-> 0]
    /\ cardPatterns = InitialCardPatterns
    /\ cardStats = InitialCardStats
    /\ cardCall = "constructor"
    /\ text \in SanitizeInputs
    /\ passes = 0
    /\ masterPassword = "test_master_password"
    /\ configHash = DefaultHash
    /\ loadReturn = "not called"
    /\ storage = [key \in SecureKeys |-> NoEntry]
    /\ saved = NotSaved
    /\ peppers = <<>>
    /\ currentStep = 1
    /\ isSubmitting = FALSE
    /\ stepValid = [k \in 1 .. 3 |-> FALSE]
    /\ agreeTerms = FALSE
    /\ nextCalls = <<>>
    /\ submitCalls = <<>>
    /\ lastSubmission = NoSubmission
    /\ formCall = "constructor"
    /\ dangerousLastIndex = <<0, 0, 0, 0, 0>>
    /\ tmLastIndex = <<0, 0, 0, 0, 0>>
    /\ inputCalls = 0
    /\ inputCall = "constructor"

SanitizeInput ==
    /\ passes < MaxPasses
    /\ text' = sanitizeInput(text)
    /\ passes' = passes + 1
    /\ UNCHANGED <<dataVars, cardVars, inputVars, formVars, configVars>>

SanitizeNext == SanitizeInput

\* the sanitizer applied to a string and again to what it returned
SanitizeSpec == SanitizeInit /\ [][SanitizeNext]_vars

\* the strings handed to maskCardNumber
MaskInit ==
    /\ validationRules = InitialRules
    /\ stats = InitialStats
    /\ xssLastIndex = InitialLastIndex
    /\ call = "constructor"
    /\ tally = [valid |-> 0, invalid |-> 0, security |-> 0]
    /\ cardPatterns = InitialCardPatterns
    /\ cardStats = InitialCardStats
    /\ cardCall = "constructor"
    /\ text \in CardStrings
    /\ passes = 0
    /\ masterPassword = "test_master_password"
    /\ configHash = DefaultHash
    /\ loadReturn = "not called"
    /\ storage = [key \in SecureKeys |-> NoEntry]
    /\ saved = NotSaved
    /\ peppers = <<>>
    /\ currentStep = 1
    /\ isSubmitting = FALSE
    /\ stepValid = [k \in 1 .. 3 |-> FALSE]
    /\ agreeTerms = FALSE
    /\ nextCalls = <<>>
    /\ submitCalls = <<>>
    /\ lastSubmission = NoSubmission
    /\ formCall = "constructor"
    /\ dangerousLastIndex = <<0, 0, 0, 0, 0>>
    /\ tmLastIndex = <<0, 0, 0, 0, 0>>
    /\ inputCalls = 0
    /\ inputCall = "constructor"

\* one call of maskCardNumber(text): text becomes what it returned, and
\* stays when the call threw
MaskCardNumber ==
    /\ passes = 0
    /\ passes' = 1
    /\ text' = IF maskCardNumber(text).threw THEN text
               ELSE maskCardNumber(text).str
    /\ cardCall' = IF maskCardNumber(text).threw THEN "maskCardNumber threw"
                   ELSE "maskCardNumber returned"
    /\ UNCHANGED <<dataVars, cardPatterns, cardStats, inputVars, formVars, configVars>>

MaskNext == MaskCardNumber

\* maskCardNumber applied to a string
MaskSpec == MaskInit /\ [][MaskNext]_vars

\* calls that the model makes on the InputValidator and the manager
MaxInputCalls == 3

\* the strings handed to validateBasicInput
BasicInputs ==
    {Null, Undefined} \cup
    { Str(s) : s \in
        { <<>>,
          <<"h","e","l","l","o">>,
          <<"<","s","c","r","i","p","t",">","x","<","/","s","c","r","i","p","t",">">>,
          <<"j","a","v","a","s","c","r","i","p","t",":","x">>,
          <<"x"," ","o","n","c","l","i","c","k","=","1">>,
          <<"a","b"," ","o","n","l","o","a","d","=">>,
          <<"d","a","t","a",":","t","e","x","t","/","h","t","m","l">>,
          <<"v","b","s","c","r","i","p","t",":","x">>,
          <<"x","x"," ","j","a","v","a","s","c","r","i","p","t",":">>,
          <<"o","n","x","="," ","j","a","v","a","s","c","r","i","p","t",":">>,
          <<"<","s","c","r","i","p","t">>,
          <<"j","r","_","t","o","k","a","i">> } }

\* config.maxInputLength: the constructor's, or one given in the options
MaxInputLengthInputs == {1000, 10}

\* the ids handed to the TransportationManager
IdInputs ==
    {Null} \cup
    { Str(s) : s \in
        { <<"j","r","_","t","o","k","a","i">>,
          <<"k","i","n","t","e","t","s","u">>,
          <<"n","a","g","o","y","a","_","s","u","b","w","a","y">>,
          <<"m","e","i","t","e","t","s","u">>,
          <<"n","a","g","o","y","a","_","b","u","s">>,
          <<"m","e","i","t","e","t","s","u","_","b","u","s">>,
          <<"u","n","k","n","o","w","n","_","i","d">>,
          <<"a","-","-","b">>,
          <<"j","r","_","t","o","k","a","i","'">>,
          <<>>,
          <<"J","R","_","T","O","K","A","I">>,
          <<"j","a","v","a","s","c","r","i","p","t",":">> } }

ValidateBasicInput ==
    \E input \in BasicInputs, maxInputLength \in MaxInputLengthInputs :
        /\ inputCalls < MaxInputCalls
        /\ dangerousLastIndex' =
               validateBasicInput(dangerousLastIndex, input,
                                  maxInputLength).li
        /\ inputCalls' = inputCalls + 1
        /\ inputCall' = "validateBasicInput"
        /\ UNCHANGED <<tmLastIndex, dataVars, cardVars, textVars, formVars, configVars>>

ValidateTransportationId ==
    \E id \in IdInputs :
        /\ inputCalls < MaxInputCalls
        /\ dangerousLastIndex' =
               validateTransportationId(dangerousLastIndex, tmLastIndex,
                                        id).li
        /\ tmLastIndex' =
               validateTransportationId(dangerousLastIndex, tmLastIndex,
                                        id).tl
        /\ inputCalls' = inputCalls + 1
        /\ inputCall' = "validateTransportationId"
        /\ UNCHANGED <<dataVars, cardVars, textVars, formVars, configVars>>

GetTransportationData ==
    \E id \in IdInputs :
        /\ inputCalls < MaxInputCalls
        /\ dangerousLastIndex' =
               getTransportationData(dangerousLastIndex, tmLastIndex, id).li
        /\ tmLastIndex' =
               getTransportationData(dangerousLastIndex, tmLastIndex, id).tl
        /\ inputCalls' = inputCalls + 1
        /\ inputCall' = "getTransportationData"
        /\ UNCHANGED <<dataVars, cardVars, textVars, formVars, configVars>>

InputNext ==
    \/ ValidateBasicInput
    \/ ValidateTransportationId
    \/ GetTransportationData

\* an InputValidator and the TransportationManager that owns it, under any
\* sequence of calls
InputSpec == Init /\ [][InputNext]_vars

\* calls of one method that may be in progress at once
MaxPending == 2

\* every variable of the form but currentStep and nextCalls
FormRest ==
    <<isSubmitting, stepValid, agreeTerms, submitCalls, lastSubmission,
      formCall>>

\* nextStep() up to its await: the guard, then validateCurrentStep() runs
\* to its end and the call is suspended with what it returned
NextStep ==
    /\ Len(nextCalls) < MaxPending
    /\ nextCalls' =
           IF currentStep >= totalSteps THEN nextCalls
           ELSE Append(nextCalls,
                       [ step |-> currentStep,
                         result |->
                             validateCurrentStep(currentStep, stepValid) ])
    /\ UNCHANGED <<currentStep, FormRest, dataVars, cardVars, textVars,
                   inputVars, configVars>>

\* the oldest suspended nextStep() goes on after its await
NextStepResumes ==
    /\ nextCalls # <<>>
    /\ currentStep' =
           IF Head(nextCalls).result THEN currentStep + 1 ELSE currentStep
    /\ nextCalls' = Tail(nextCalls)
    /\ UNCHANGED <<FormRest, dataVars, cardVars, textVars, inputVars, configVars>>

PrevStep ==
    /\ currentStep' = IF currentStep <= 1 THEN currentStep ELSE currentStep - 1
    /\ UNCHANGED <<nextCalls, FormRest, dataVars, cardVars, textVars,
                   inputVars, configVars>>

\* resetForm(): form.reset() empties the fields and clears the check box
ResetForm ==
    /\ currentStep' = 1
    /\ stepValid' = [k \in 1 .. 3 |-> FALSE]
    /\ agreeTerms' = FALSE
    /\ UNCHANGED <<isSubmitting, nextCalls, submitCalls, lastSubmission,
                   formCall, dataVars, cardVars, textVars, inputVars, configVars>>

\* the user edits the fields of the step on display
EditFields ==
    \E v \in BOOLEAN :
        /\ currentStep \in 1 .. 3
        /\ stepValid' = [stepValid EXCEPT ![currentStep] = v]
        /\ UNCHANGED <<currentStep, isSubmitting, agreeTerms, nextCalls,
                       submitCalls, lastSubmission, formCall, dataVars,
                       cardVars, textVars, inputVars, configVars>>

\* the user clicks #agree-terms, which step 4 displays
ToggleTerms ==
    /\ currentStep = 4
    /\ agreeTerms' = ~agreeTerms
    /\ UNCHANGED <<currentStep, isSubmitting, stepValid, nextCalls,
                   submitCalls, lastSubmission, formCall, dataVars, cardVars,
                   textVars, inputVars, configVars>>

\* handleSubmit(event) up to its first await
HandleSubmit ==
    /\ Len(submitCalls) < MaxPending
    /\ IF SubmitGuard(isSubmitting)
       THEN /\ formCall' = "handleSubmit ignored"
            /\ UNCHANGED <<isSubmitting, submitCalls, configVars>>
       ELSE /\ isSubmitting' = TRUE
            /\ submitCalls' =
                   Append(submitCalls,
                          [ pc |-> "validated",
                            result |->
                                validateCurrentStep(currentStep, stepValid) ])
            /\ formCall' = "handleSubmit"
    /\ UNCHANGED <<currentStep, stepValid, agreeTerms, nextCalls,
                   lastSubmission, dataVars, cardVars, textVars, inputVars, configVars>>

\* the i-th handleSubmit call leaves through its finally block
SubmitFinally(i, how) ==
    /\ isSubmitting' = FALSE
    /\ submitCalls' = RemoveAt(submitCalls, i)
    /\ formCall' = how
    /\ UNCHANGED lastSubmission

\* a handleSubmit call goes on after await this.validateCurrentStep(): it
\* returns when the step is invalid or #agree-terms is not checked, and
\* otherwise calls encryptSensitiveData
SubmitValidated ==
    \E i \in 1 .. Len(submitCalls) :
        /\ submitCalls[i].pc = "validated"
        /\ IF ~submitCalls[i].result \/ ~agreeTerms
           THEN SubmitFinally(i, "handleSubmit returned early")
           ELSE /\ submitCalls' =
                       [submitCalls EXCEPT ![i].pc = "encrypting"]
                /\ formCall' = "handleSubmit encrypts"
                /\ UNCHANGED <<isSubmitting, lastSubmission, configVars>>
        /\ UNCHANGED <<currentStep, stepValid, agreeTerms, nextCalls, dataVars,
                       cardVars, textVars, inputVars, configVars>>

\* a handleSubmit call goes on after await this.encryptSensitiveData(): the
\* encryption threw, or submitData is called and sends its request
SubmitEncrypted ==
    \E i \in 1 .. Len(submitCalls), threw \in BOOLEAN :
        /\ submitCalls[i].pc = "encrypting"
        /\ IF threw
           THEN SubmitFinally(i, "handleSubmit failed")
           ELSE /\ submitCalls' =
                       [submitCalls EXCEPT ![i].pc = "submitting"]
                /\ lastSubmission' =
                       [ reached |-> TRUE,
                         step |-> currentStep,
                         valid |-> \A k \in 1 .. 3 : stepValid[k] ]
                /\ formCall' = "submitData"
                /\ UNCHANGED isSubmitting
        /\ UNCHANGED <<currentStep, stepValid, agreeTerms, nextCalls, dataVars,
                       cardVars, textVars, inputVars, configVars>>

\* the request of submitData is answered: saveRecordsSecurely succeeded, or
\* it failed and submitData threw
SubmitSettled ==
    \E i \in 1 .. Len(submitCalls), success \in BOOLEAN :
        /\ submitCalls[i].pc = "submitting"
        /\ SubmitFinally(i, IF success THEN "handleSubmit succeeded"
                                       ELSE "handleSubmit failed")
        /\ UNCHANGED <<currentStep, stepValid, agreeTerms, nextCalls, dataVars,
                       cardVars, textVars, inputVars, configVars>>

FormNext ==
    \/ NextStep
    \/ NextStepResumes
    \/ PrevStep
    \/ ResetForm
    \/ EditFields
    \/ ToggleTerms
    \/ HandleSubmit
    \/ SubmitValidated
    \/ SubmitEncrypted
    \/ SubmitSettled

\* an ICLossReportForm under any sequence of its handlers and of the
\* resumptions of its suspended calls
FormSpec == Init /\ [][FormNext]_vars

\* getPepper and getHashConfig calls that the model makes
MaxPeppers == 3

MasterPasswords == {NoPassword, "test_master_password"}

ConfigInputs ==
    { ExternalConfigNull,
      ExternalConfig({}, {}, 0, 0, 0),
      ExternalConfig({"hash"}, {"iterations"}, 0, 0, 0),
      ExternalConfig({"hash"}, {"iterations"}, 50000, 0, 0),
      ExternalConfig({"hash"}, {"iterations"}, 100000, 0, 0),
      ExternalConfig({"hash"}, {"iterations", "saltLength"}, 200000, 16, 0),
      ExternalConfig({"hash"}, {"saltLength"}, 0, 0, 0),
      ExternalConfig({"hash"}, {"saltLength"}, 0, 8, 0),
      ExternalConfig({"hash", "session"}, {"saltLength"}, 0, 64, 30),
      ExternalConfig({"session"}, {}, 0, 0, 200) }

SecureValues == {"value A", "value B"}

\* what CryptoJS.lib.WordArray.random(32).toString() may give
RandomPeppers == {"pepper A", "pepper B"}

\* a SecurityConfig built with or without a master password
ConfigInit ==
    /\ validationRules = InitialRules
    /\ stats = InitialStats
    /\ xssLastIndex = InitialLastIndex
    /\ call = "constructor"
    /\ tally = [valid |-> 0, invalid |-> 0, security |-> 0]
    /\ cardPatterns = InitialCardPatterns
    /\ cardStats = InitialCardStats
    /\ cardCall = "constructor"
    /\ text = <<>>
    /\ passes = 0
    /\ masterPassword \in MasterPasswords
    /\ configHash = DefaultHash
    /\ loadReturn = "not called"
    /\ storage = [key \in SecureKeys |-> NoEntry]
    /\ saved = NotSaved
    /\ peppers = <<>>
    /\ currentStep = 1
    /\ isSubmitting = FALSE
    /\ stepValid = [k \in 1 .. 3 |-> FALSE]
    /\ agreeTerms = FALSE
    /\ nextCalls = <<>>
    /\ submitCalls = <<>>
    /\ lastSubmission = NoSubmission
    /\ formCall = "constructor"
    /\ dangerousLastIndex = <<0, 0, 0, 0, 0>>
    /\ tmLastIndex = <<0, 0, 0, 0, 0>>
    /\ inputCalls = 0
    /\ inputCall = "constructor"

LoadConfig ==
    \E externalConfig \in ConfigInputs :
        /\ configHash' = loadConfig(configHash, externalConfig).hash
        /\ loadReturn' = IF loadConfig(configHash, externalConfig).ok
                         THEN "true" ELSE "false"
        /\ UNCHANGED <<masterPassword, storage, saved, peppers, dataVars,
                       cardVars, textVars, inputVars, formVars>>

SaveSecureConfig ==
    \E configKey \in SecureKeys, value \in SecureValues :
        /\ storage' =
               saveSecureConfig(masterPassword, storage, configKey,
                                value).storage
        /\ saved' =
               IF saveSecureConfig(masterPassword, storage, configKey,
                                   value).ok
               THEN [made |-> TRUE, key |-> configKey, value |-> value]
               ELSE saved
        /\ UNCHANGED <<masterPassword, configHash, loadReturn, peppers,
                       dataVars, cardVars, textVars, inputVars, formVars>>

\* getPepper(): _generateDefaultPepper hands the pepper it drew to
\* saveSecureConfig('security_pepper', pepper)
PepperCall(by, random) ==
    /\ Len(peppers) < MaxPeppers
    /\ peppers' =
           Append(peppers,
                  [ by |-> by,
                    pepper |-> getPepper(masterPassword, storage, random) ])
    /\ storage' =
           IF getPepper(masterPassword, storage, random) = random
           THEN saveSecureConfig(masterPassword, storage, "security_pepper",
                                 random).storage
           ELSE storage
    /\ UNCHANGED <<masterPassword, configHash, loadReturn, saved, dataVars,
                   cardVars, textVars, inputVars, formVars>>

GetPepper ==
    \E random \in RandomPeppers : PepperCall("getPepper", random)

GetHashConfig ==
    \E random \in RandomPeppers : PepperCall("getHashConfig", random)

ConfigNext ==
    \/ LoadConfig
    \/ SaveSecureConfig
    \/ GetPepper
    \/ GetHashConfig

\* a SecurityConfig under any sequence of calls
ConfigSpec == ConfigInit /\ [][ConfigNext]_vars

Next ==
    \/ ValidateField
    \/ ValidateObject
    \/ PerformSecurityCheck
    \/ AddValidationRule
    \/ ResetStats

Spec == Init /\ [][Next]_vars

(***************************************************************************)
(* Properties                                                              *)
(***************************************************************************)
\* the fields of the model that validationRules holds a rule for
Registered(fieldName) == validationRules[fieldName].kind = "rule"

\* s matches some expression of the three pattern sets (a match anywhere
\* in s, as a fresh expression finds it)
SqlMatches(s) == SqlInjectionTest[s]
OsMatches(s) == OsCommandTest[s]
XssMatches(s) == \E k \in 1..Len(xssPatterns) : XssTest[k][s][0] > 0
Dangerous(s) == SqlMatches(s) \/ OsMatches(s) \/ XssMatches(s)

\* what validateField would return in this state
FieldReturn(fieldName, value, allowEmpty) ==
    validateField(validationRules, stats, xssLastIndex, fieldName, value,
                  allowEmpty).res

\* what performSecurityCheck would return in this state
ScanReturn(s) == performSecurityCheck(stats, xssLastIndex, s)

\* C1: fail closed.  In every reachable state, validateField on a
\* registered field with a value that matches any expression of the SQL,
\* OS command or XSS pattern sets returns valid = false with error
\* SECURITY_VIOLATION and no sanitizedValue.
C1_FailClosed ==
    \A f \in FieldInputs, s \in StringInputs, o \in BOOLEAN :
        (Registered(f) /\ Dangerous(s)) =>
            /\ FieldReturn(f, Str(s), o).valid = FALSE
            /\ FieldReturn(f, Str(s), o).error = "SECURITY_VIOLATION"
            /\ FieldReturn(f, Str(s), o).sanitizedValue = Undefined

\* C2: the scan is deterministic.  In every reachable state,
\* performSecurityCheck(v) returns the safe flag and the violation kind
\* that a validator nothing was called on returns for v.
C2_ScanDeterministic ==
    \A s \in StringInputs :
        /\ ScanReturn(s).safe =
               performSecurityCheck(InitialStats, InitialLastIndex, s).safe
        /\ ScanReturn(s).violation =
               performSecurityCheck(InitialStats, InitialLastIndex,
                                    s).violation

\* C3: one violation kind per scan, by fixed priority.  In every reachable
\* state performSecurityCheck(v) reports SQL_INJECTION if an SQL expression
\* matches v, else OS_COMMAND_INJECTION if an OS command expression
\* matches, else XSS if an XSS expression matches, else no violation.
C3_ScanPriority ==
    \A s \in StringInputs :
        /\ ScanReturn(s).safe = ~Dangerous(s)
        /\ ScanReturn(s).violation =
               IF SqlMatches(s) THEN "SQL_INJECTION"
               ELSE IF OsMatches(s) THEN "OS_COMMAND_INJECTION"
               ELSE IF XssMatches(s) THEN "XSS"
               ELSE "NONE"

\* the result kind the fixed order of checks gives: unknown field, absent
\* value, security scan (safe is what the scan of the call answers),
\* maxLength, required but blank, pattern, and then the value is valid
ExpectedKind(fieldName, value, allowEmpty, safe) ==
    IF ~Registered(fieldName) THEN "UNKNOWN_FIELD"
    ELSE IF value.kind \in {"null", "undefined"}
    THEN IF validationRules[fieldName].required /\ ~allowEmpty
         THEN "REQUIRED_FIELD" ELSE "valid"
    ELSE IF ~safe THEN "SECURITY_VIOLATION"
    ELSE IF Len(value.str) > validationRules[fieldName].maxLength
    THEN "EXCESSIVE_LENGTH"
    ELSE IF validationRules[fieldName].required /\ Trim(value.str) = <<>>
    THEN "REQUIRED_FIELD"
    ELSE IF /\ validationRules[fieldName].pattern # ""
            /\ Trim(value.str) # <<>>
            /\ ~PatternTest(validationRules[fieldName].pattern, value.str)
    THEN "INVALID_FORMAT"
    ELSE "valid"

\* the result kind of a validateField return
KindOf(res) == IF res.valid THEN "valid" ELSE res.error

\* C4: validateField checks in the fixed order unknown field, absent value,
\* security scan, maxLength, required but blank after trim, pattern,
\* sanitize, and returns the error of the first check that fails: a name
\* no rule is registered for gives UNKNOWN_FIELD whatever the value, an
\* absent value gives REQUIRED_FIELD when the rule is required and
\* allowEmpty is not set and else valid with an empty sanitizedValue.
C4_CheckOrder ==
    \A f \in FieldInputs, v \in ValueInputs, o \in BOOLEAN :
        /\ KindOf(FieldReturn(f, v, o)) =
               ExpectedKind(f, v, o, ScanReturn(v.str).safe)
        /\ (Registered(f) /\ v.kind # "string"
                /\ FieldReturn(f, v, o).valid)
               => FieldReturn(f, v, o).sanitizedValue = Str(<<>>)

\* C5 as the specification states it: for every registered field and every
\* value whose string form is longer than the field's maxLength,
\* validateField returns valid = false with error EXCESSIVE_LENGTH,
\* actualLength the length of the input and maxLength the rule's limit.
C5_EveryLongValue ==
    \A f \in FieldInputs, s \in StringInputs, o \in BOOLEAN :
        (Registered(f) /\ Len(s) > validationRules[f].maxLength) =>
            /\ FieldReturn(f, Str(s), o).valid = FALSE
            /\ FieldReturn(f, Str(s), o).error = "EXCESSIVE_LENGTH"
            /\ FieldReturn(f, Str(s), o).actualLength = Len(s)
            /\ FieldReturn(f, Str(s), o).maxLength
                   = validationRules[f].maxLength

\* C5, amended: for every registered field and every value whose string
\* form is longer than the field's maxLength and in which the security
\* scan of the call reports no violation, validateField returns
\* valid = false with error EXCESSIVE_LENGTH, actualLength the length of
\* the input and maxLength the rule's limit.
C5_LongValuePastScan ==
    \A f \in FieldInputs, s \in StringInputs, o \in BOOLEAN :
        (/\ Registered(f)
         /\ Len(s) > validationRules[f].maxLength
         /\ ScanReturn(s).safe) =>
            /\ FieldReturn(f, Str(s), o).valid = FALSE
            /\ FieldReturn(f, Str(s), o).error = "EXCESSIVE_LENGTH"
            /\ FieldReturn(f, Str(s), o).actualLength = Len(s)
            /\ FieldReturn(f, Str(s), o).maxLength
                   = validationRules[f].maxLength

\* validateField has returned EXCESSIVE_LENGTH, and a custom rule is
\* registered whose maxLength a blank value of the model exceeds
C5_Witness ==
    /\ call = "validateField"
    /\ stats.violationTypes.excessiveLength > 0
    /\ Registered("customId")
    /\ \E s \in StringInputs :
           /\ Len(s) > validationRules["customId"].maxLength
           /\ Trim(s) # s
           /\ ScanReturn(s).safe

\* C6: statistics count truthfully.  After N validateField returns with
\* valid = true and M with valid = false, K of them SECURITY_VIOLATION,
\* since the constructor or the last resetStats, getValidationStats
\* reports totalValidations = N + M, successfulValidations = N,
\* failedValidations = M and securityViolations = K, so that
\* totalValidations = successfulValidations + failedValidations.
C6_StatsCountTruthfully ==
    /\ getValidationStats(stats).totalValidations
           = tally.valid + tally.invalid
    /\ getValidationStats(stats).successfulValidations = tally.valid
    /\ getValidationStats(stats).failedValidations = tally.invalid
    /\ getValidationStats(stats).securityViolations = tally.security
    /\ getValidationStats(stats).totalValidations
           = getValidationStats(stats).successfulValidations
               + getValidationStats(stats).failedValidations

\* validateField has returned valid and has returned SECURITY_VIOLATION
C6_Witness ==
    /\ tally.valid > 0
    /\ tally.security > 0
    /\ call \in {"validateField", "validateObject"}

\* C7: in every state reachable through validateField, validateObject,
\* performSecurityCheck, addValidationRule and resetStats,
\* securityViolations = violationTypes.sqlInjection
\* + violationTypes.osCommand + violationTypes.xss.
C7_ViolationCountersAgree ==
    stats.securityViolations =
        stats.violationTypes.sqlInjection + stats.violationTypes.osCommand
            + stats.violationTypes.xss

\* C8: resetStats sets every counter (totalValidations,
\* successfulValidations, failedValidations, securityViolations and the
\* five violationTypes counters) to zero and lastValidation to null and
\* leaves the rule registry unchanged, and validateField returns after the
\* reset the result kind it would have returned before it.
C8_ResetStats ==
    [][call' = "resetStats" =>
         /\ stats'.totalValidations = 0
         /\ stats'.successfulValidations = 0
         /\ stats'.failedValidations = 0
         /\ stats'.securityViolations = 0
         /\ \A c \in DOMAIN stats'.violationTypes :
                stats'.violationTypes[c] = 0
         /\ DOMAIN stats'.violationTypes =
                {"sqlInjection", "osCommand", "xss", "invalidFormat",
                 "excessiveLength"}
         /\ stats'.lastValidation = "null"
         /\ validationRules' = validationRules
         /\ \A f \in FieldInputs, v \in ValueInputs, o \in BOOLEAN :
                KindOf(validateField(validationRules', stats',
                                     xssLastIndex', f, v, o).res)
                    = KindOf(FieldReturn(f, v, o))
    ]_vars

\* resetStats has just run on a validator that holds a custom rule and
\* whose expressions earlier validations have left a lastIndex in
C8_Witness ==
    /\ call = "resetStats"
    /\ Registered("customId")
    /\ xssLastIndex # InitialLastIndex

\* what addValidationRule would return and leave in this state
RuleReturn(fieldName, rule) ==
    addValidationRule(validationRules, fieldName, rule)

\* C9: addValidationRule returns false and leaves the registry unchanged
\* when the descriptor lacks any of maxLength, required, sanitize or
\* description or when fieldName is empty or not a string; it returns true
\* only when it has registered the rule, and validateField for that name
\* then uses the rule registered last.
C9_AddValidationRule ==
    \A n \in RuleNameInputs, d \in RuleInputs :
        /\ (\/ d = RuleNull
            \/ \E prop \in {"maxLength", "required", "sanitize",
                            "description"} : prop \notin d.props
            \/ n = ""
            \/ n = NonString)
               => /\ RuleReturn(n, d).ok = FALSE
                  /\ RuleReturn(n, d).rules = validationRules
        /\ RuleReturn(n, d).ok
               => /\ RuleReturn(n, d).rules[n] = d
                  /\ \A m \in PropertyNames \ {n} :
                         RuleReturn(n, d).rules[m] = validationRules[m]
                  /\ \A v \in ValueInputs, o \in BOOLEAN :
                         validateField(RuleReturn(n, d).rules, stats,
                                       xssLastIndex, n, v, o)
                             = ValidateWithRule(
                                   d, [stats EXCEPT
                                         !.totalValidations = @ + 1,
                                         !.lastValidation = "date"],
                                   xssLastIndex, v, o)

\* addValidationRule has just run and the name of the model's custom rule
\* holds a rule, which a further registration replaces
C9_Witness ==
    /\ call = "addValidationRule"
    /\ Registered("customId")
    /\ \E d \in RuleInputs :
           /\ RuleReturn("customId", d).ok
           /\ d # validationRules["customId"]

\* what validateObject would return in this state
ObjectReturn(data, requiredFields) ==
    validateObject(validationRules, stats, xssLastIndex, tally, data,
                   requiredFields)

\* C10: every result of validateObject has valid = true if and only if its
\* errors list is empty, that is if and only if no name of requiredFields
\* is missing from data and every key of data passed validateField.
C10_ValidIffNoErrors ==
    \A data \in DataInputs, requiredFields \in RequiredFieldsInputs :
        /\ ObjectReturn(data, requiredFields).valid
               <=> ObjectReturn(data, requiredFields).errors = <<>>
        /\ ObjectReturn(data, requiredFields).valid
               <=> /\ data.kind = "object"
                   /\ \A k \in 1..Len(requiredFields) :
                          \E i \in 1..Len(data.entries) :
                              /\ data.entries[i].name = requiredFields[k]
                              /\ data.entries[i].value.kind
                                     \notin {"null", "undefined"}
                   /\ \A i \in 1..Len(data.entries) :
                          ObjectReturn(data, requiredFields)
                              .fieldResults[i].res.valid

\* the MISSING_REQUIRED_FIELD errors that errors holds for the field name
MissingErrors(errors, name) ==
    Cardinality({ i \in 1..Len(errors) :
                    /\ errors[i].field = name
                    /\ errors[i].error = "MISSING_REQUIRED_FIELD" })

\* data has the key name with a value other than null and undefined
PresentWithValue(data, name) ==
    \E i \in 1..Len(data.entries) :
        /\ data.entries[i].name = name
        /\ data.entries[i].value.kind \notin {"null", "undefined"}

\* C11: validateObject records exactly one MISSING_REQUIRED_FIELD error for
\* each name of requiredFields that is absent from data or whose value is
\* null or undefined, whatever that field's own required flag, and none
\* for a name that is present with a value; and it validates every key
\* that data holds, not only the required ones.
C11_MissingRequiredFields ==
    \A data \in DataInputs \ {DataNull},
       requiredFields \in RequiredFieldsInputs :
        /\ \A k \in 1..Len(requiredFields) :
               MissingErrors(ObjectReturn(data, requiredFields).errors,
                             requiredFields[k])
                   = IF PresentWithValue(data, requiredFields[k])
                     THEN 0 ELSE 1
        /\ Len(ObjectReturn(data, requiredFields).fieldResults)
               = Len(data.entries)
        /\ \A i \in 1..Len(data.entries) :
               ObjectReturn(data, requiredFields).fieldResults[i].field
                   = data.entries[i].name

\* the same property names and values as data, inserted in the opposite order
RECURSIVE Reversed(_)
Reversed(s) ==
    IF s = <<>> THEN <<>> ELSE Append(Reversed(Tail(s)), Head(s))

\* objects of two properties that both pass validateField
HashedInputs ==
    { DataObject(<< [name |-> "employeeId", value |-> Str(id)],
                    [name |-> "lossTime", value |-> Str(<<"1","2",":","3","0">>)] >>) :
        id \in { <<"1","2","3","4","5","6">>,
                 <<"A","B","1","2","3","4","5","6">> } }

\* C12: two validateObject calls whose data hold the same name to value
\* pairs return the same dataHash whatever the order in which the keys were
\* inserted, and data that differ in a sanitized value return the digests of
\* different serializations.
C12_DataHashReproducible ==
    \A d1 \in HashedInputs, d2 \in HashedInputs :
        /\ ObjectReturn(d1, <<>>).dataHash.defined
        /\ ObjectReturn(DataObject(Reversed(d1.entries)), <<>>).dataHash
               = ObjectReturn(d1, <<>>).dataHash
        /\ d1 # d2 =>
               ObjectReturn(d1, <<>>).dataHash # ObjectReturn(d2, <<>>).dataHash

\* what validateCardNumber would return in this state
CardReturn(cardNumber) ==
    validateCardNumber(cardPatterns, cardStats, cardNumber).res

\* the rules after a custom rule whose pattern is no regular expression
\* was registered: rule.pattern.test is not a function
MalformedRules ==
    addValidationRule(validationRules, "customId",
                      Rule("notRegExp", 8, FALSE, TRUE)).rules

\* a number for which maskCardNumber raises a RangeError
MaskFault(cardNumber) ==
    /\ cardNumber.kind = "string"
    /\ AllIn(cardNumber.str, Digits)
    /\ Len(cardNumber.str) \in 4..7

\* C13: validateField, validateObject and validateCardNumber never throw:
\* for every input, a malformed custom rule included, they return a result
\* whose valid flag is defined, and a fault raised while validating is
\* returned as a result with error VALIDATION_ERROR.
C13_NeverThrow ==
    /\ \A cardNumber \in CardInputs :
           /\ ~CardReturn(cardNumber).threw
           /\ CardReturn(cardNumber).valid \in BOOLEAN
           /\ MaskFault(cardNumber) =>
                  /\ ~CardReturn(cardNumber).valid
                  /\ CardReturn(cardNumber).error = "VALIDATION_ERROR"
    /\ \A f \in FieldInputs, v \in ValueInputs, o \in BOOLEAN :
           /\ FieldReturn(f, v, o).valid \in BOOLEAN
           /\ validateField(MalformedRules, stats, xssLastIndex, f, v, o)
                  .res.valid \in BOOLEAN
    /\ validateField(MalformedRules, stats, xssLastIndex, "customId",
                     Str(<<"1","2","3","4","5","6">>), FALSE).res.error
           = "VALIDATION_ERROR"
    /\ \A data \in DataInputs, requiredFields \in RequiredFieldsInputs :
           /\ ObjectReturn(data, requiredFields).valid \in BOOLEAN
           /\ data = DataNull =>
                  /\ ~ObjectReturn(data, requiredFields).valid
                  /\ Len(ObjectReturn(data, requiredFields).errors) = 1
                  /\ ObjectReturn(data, requiredFields).errors[1].error
                         = "VALIDATION_ERROR"

\* a call of validateCardNumber ended in its catch block after the
\* UNKNOWN_CARD_TYPE branch had counted the card
C13_Witness ==
    /\ cardCall = "validateCardNumber"
    /\ cardStats.validationCount = 1
    /\ cardStats.invalidCards = 1
    /\ cardStats.suspiciousAttempts = 1

\* no entry of cardPatterns accepts the number
MatchesNoFormat(number) ==
    \A k \in 1..Len(cardPatterns) :
        \/ cardPatterns[k].pattern = ""
        \/ ~CardPatternTest(cardPatterns[k].pattern, number)

\* C14: for every string of decimal digits whose length is within 4..20 and
\* that no card format accepts, validateCardNumber returns valid = false
\* with error UNKNOWN_CARD_TYPE, which is none of INVALID_INPUT,
\* INVALID_LENGTH, INVALID_FORMAT and VALIDATION_ERROR.
C14_UnknownCardType ==
    \A cardNumber \in CardInputs :
        ( /\ cardNumber.kind = "string"
          /\ AllIn(cardNumber.str, Digits)
          /\ Len(cardNumber.str) \in 4..20
          /\ MatchesNoFormat(cardNumber.str) )
            => /\ ~CardReturn(cardNumber).valid
               /\ CardReturn(cardNumber).error = "UNKNOWN_CARD_TYPE"

\* the standard Luhn check, told from the digits: counted from the right,
\* every second digit is doubled and 9 is taken off a doubled value above 9
LuhnTerm(number, k) ==
    LET d == DigitValue[number[Len(number) + 1 - k]]
    IN  IF k % 2 = 1 THEN d
        ELSE IF 2 * d > 9 THEN 2 * d - 9 ELSE 2 * d

RECURSIVE LuhnTotal(_, _)
LuhnTotal(number, k) ==
    IF k > Len(number) THEN 0
    ELSE LuhnTerm(number, k) + LuhnTotal(number, k + 1)

PassesLuhn(number) == LuhnTotal(number, 1) % 10 = 0

\* a number generated for a format: digits of an accepted length, passing
\* the Luhn check when the format declares a checksum
GeneratedFor(format, cardNumber) ==
    /\ cardNumber.kind = "string"
    /\ AllIn(cardNumber.str, Digits)
    /\ CardPatternTest(format.pattern, cardNumber.str)
    /\ format.checksum => PassesLuhn(cardNumber.str)

\* validateCardNumber classifies the number as the format
ClassifiedAs(format, cardNumber) ==
    /\ CardReturn(cardNumber).valid
    /\ CardReturn(cardNumber).cardType = format.type
    /\ CardReturn(cardNumber).issuer = format.issuer
    /\ CardReturn(cardNumber).regions = format.regions

\* C15: every built-in card format is classifiable: for each of the ten
\* formats of a validator whose formats are the built-in ones, a number
\* generated for the format is returned by validateCardNumber as valid with
\* the format's cardType, issuer and regions.
C15_EveryFormatClassifiable ==
    cardPatterns = InitialCardPatterns =>
        \A k \in 1..Len(InitialCardPatterns) :
            \E cardNumber \in CardInputs :
                /\ GeneratedFor(InitialCardPatterns[k], cardNumber)
                /\ ClassifiedAs(InitialCardPatterns[k], cardNumber)

\* a string of digits that a format of this state accepts
Matched(cardNumber) ==
    /\ cardNumber.kind = "string"
    /\ cardNumber.str # <<>>
    /\ AllIn(cardNumber.str, Digits)
    /\ detectCardType(cardPatterns, cardNumber.str) # NoCardType

SuicaNumbers ==
    { <<"1","2","3","4","5","6","7","8","9","0","1","2","3","4","5","6">>,
      <<"9","8","7","6","5","4","3","2","1","0","9","8","7","6","5","4">> }

OffLengthNumbers ==
    { <<"1","2","3","4","5","6","7","8","9","0","1","2","3","4","5">>,
      <<"1","2","3","4","5","6","7","8","9","0","1","2","3","4","5","6","7">> }

\* C17: a standard 16-digit Suica number is accepted whatever its checksum:
\* validateCardNumber of '1234567890123456' and of '9876543210987654'
\* returns valid = true with cardType SUICA, the number masked as its first
\* four digits, asterisks and its last four digits, and rawNumber equal to
\* the input; numbers of 15 and of 17 digits are rejected.
C17_SuicaAccepted ==
    cardPatterns = InitialCardPatterns =>
        /\ \A s \in SuicaNumbers :
               /\ CardReturn(Str(s)).valid
               /\ CardReturn(Str(s)).cardType = "SUICA"
               /\ CardReturn(Str(s)).number
                      = Str(SubSeq(s, 1, 4) \o Stars(8) \o SubSeq(s, 13, 16))
               /\ CardReturn(Str(s)).rawNumber = Str(s)
        /\ \A s \in OffLengthNumbers :
               /\ ~CardReturn(Str(s)).valid
               /\ CardReturn(Str(s)).error # ""

\* a string of digits that is not empty
DigitString(cardNumber) ==
    /\ cardNumber.kind = "string"
    /\ cardNumber.str # <<>>
    /\ AllIn(cardNumber.str, Digits)

\* C18: validateCardNumber computes the masked number whatever the
\* validity: for every string of digits the result (valid,
\* INVALID_CHECKSUM, UNKNOWN_CARD_TYPE or a length rejection) carries the
\* masked number, and a result that is an error never carries the unmasked
\* number.
C18_MaskedNumberAlways ==
    \A cardNumber \in CardInputs :
        DigitString(cardNumber) =>
            /\ CardReturn(cardNumber).number.kind = "string"
            /\ ~CardReturn(cardNumber).valid =>
                   /\ CardReturn(cardNumber).number # cardNumber
                   /\ CardReturn(cardNumber).rawNumber # cardNumber

\* C19: maskCardNumber is total and hiding: for every string it returns
\* without throwing; a string of fewer than 8 characters gives the constant
\* mask '****'; a longer one gives its first 4 characters, one asterisk for
\* each character between, and its last 4 characters; '123' gives '****'
\* and '12345678' gives '1234****'.
C19_MaskTotalAndHiding ==
    /\ cardCall # "maskCardNumber threw"
    /\ ~maskCardNumber(text).threw
    /\ Len(text) < 8 => maskCardNumber(text).str = <<"*","*","*","*">>
    /\ Len(text) > 8 =>
           /\ Len(maskCardNumber(text).str) = Len(text)
           /\ \A k \in 1..Len(text) :
                  maskCardNumber(text).str[k]
                      = IF k <= 4 \/ k > Len(text) - 4 THEN text[k] ELSE "*"
    /\ text = <<"1","2","3">> =>
           maskCardNumber(text).str = <<"*","*","*","*">>
    /\ text = <<"1","2","3","4","5","6","7","8">> =>
           maskCardNumber(text).str = <<"1","2","3","4","*","*","*","*">>

\* the characters of sub stand in s from position i on
OccursAt(s, sub, i) ==
    /\ i + Len(sub) - 1 <= Len(s)
    /\ \A k \in 1..Len(sub) : s[i + k - 1] = sub[k]

Includes(s, sub) == \E i \in 1..Len(s) : OccursAt(s, sub, i)

\* the constructs a sanitized string must not hold
DangerousConstructs ==
    { <<"<","s","c","r","i","p","t">>,
      <<"j","a","v","a","s","c","r","i","p","t",":">>,
      <<"o","n","e","r","r","o","r","=">>,
      <<"o","n","l","o","a","d","=">> }

\* C20: sanitization is idempotent and leaves no dangerous construct: what
\* sanitizeInput returned is returned unchanged by sanitizeInput, and holds
\* none of '<script', 'javascript:', 'onerror=' and 'onload='.
C20_SanitizeIdempotentAndClean ==
    passes >= 1 =>
        /\ sanitizeInput(text) = text
        /\ \A construct \in DangerousConstructs : ~Includes(text, construct)

\* C21: the statistics of an ICCardValidator partition its calls: every
\* validateCardNumber call adds one to validationCount and to exactly one
\* of validCards, invalidCards and suspiciousAttempts, so validationCount
\* is their sum in every reachable state, and resetStats sets the four to
\* zero.
C21_CardStatsPartition ==
    /\ cardStats.validationCount
           = cardStats.validCards + cardStats.invalidCards
               + cardStats.suspiciousAttempts
    /\ cardCall = "resetStats" =>
           /\ cardStats.validationCount = 0
           /\ cardStats.validCards = 0
           /\ cardStats.invalidCards = 0
           /\ cardStats.suspiciousAttempts = 0

\* what validateBasicInput would return in this state, with the options
\* left out
BasicReturn(input) ==
    validateBasicInput(dangerousLastIndex, input, 1000).res

\* some expression of dangerousPatterns matches s (a match anywhere in s,
\* as a fresh expression finds it)
MatchesDangerous(s) ==
    \E k \in 1..Len(dangerousPatterns) : Matches(dangerousPatterns[k], s)

\* C22: validateBasicInput detects dangerous input on every call: for every
\* input that one of its dangerousPatterns matches it returns valid = false
\* with the error that a dangerous pattern was detected, whatever the same
\* validator validated before.
C22_DangerousAlwaysDetected ==
    \A input \in BasicInputs :
        (input.kind = "string" /\ MatchesDangerous(input.str)) =>
            /\ ~BasicReturn(input).valid
            /\ \E i \in 1..Len(BasicReturn(input).errors) :
                   BasicReturn(input).errors[i] = DangerousPattern

\* validateField of a registered field rejects s as a security violation
\* and leaves violationTypes.xss one higher
CountsXss(fieldName, s) ==
    validateField(validationRules, stats, xssLastIndex, fieldName, Str(s),
                  FALSE).stats.violationTypes.xss
        = stats.violationTypes.xss + 1

\* C23: XSS payloads are classified as XSS: for every input that holds a
\* script element, an event-handler attribute, a javascript: URL, an iframe
\* element or an object, embed, applet or meta tag, performSecurityCheck
\* returns safe = false with violation XSS, and a validateField call that
\* rejects such a value adds one to violationTypes.xss.
C23_XssClassifiedAsXss ==
    \A s \in ScannedStrings :
        XssMatches(s) =>
            /\ ~ScanReturn(s).safe
            /\ ScanReturn(s).violation = "XSS"
            /\ \A f \in FieldInputs :
                   FieldReturn(f, Str(s), FALSE).error = "SECURITY_VIOLATION"
                       => CountsXss(f, s)

\* what updateValidationRule would return in this state
UpdateReturn(cardType, config) ==
    updateValidationRule(cardPatterns, cardType, config)

\* the properties every format of the constructor has
CardFormatFields ==
    {"pattern", "length", "checksum", "description", "issuer", "regions"}

\* a descriptor that lacks a card-format field or whose pattern is no
\* RegExp
Incomplete(config) ==
    \/ config.kind = "null"
    \/ ~(CardFormatFields \subseteq config.props)
    \/ config.pattern = "notRegExp"

\* C24: updateValidationRule rejects an incomplete card-format descriptor:
\* when the config lacks a card-format field (it holds only a description)
\* or its pattern is no RegExp, the call returns false and leaves
\* cardPatterns unchanged; given a complete descriptor for a new type it
\* returns true, and numbers the new pattern accepts classify as that type.
C24_UpdateRejectsIncomplete ==
    \A cardType \in CardTypeInputs \ {""}, config \in CardConfigInputs :
        IF Incomplete(config)
        THEN /\ ~UpdateReturn(cardType, config).ok
             /\ UpdateReturn(cardType, config).patterns = cardPatterns
        ELSE /\ UpdateReturn(cardType, config).ok
             /\ \A cardNumber \in CardInputs :
                    ( /\ DigitString(cardNumber)
                      /\ MatchesNoFormat(cardNumber.str)
                      /\ CardPatternTest(config.pattern, cardNumber.str) )
                        => detectCardType(
                               UpdateReturn(cardType, config).patterns,
                               cardNumber.str).type = cardType

\* C25: in the report form a report is submitted only from the final step
\* with all earlier steps valid: whenever handleSubmit has reached
\* submitData, currentStep was totalSteps (4) and the fields of steps 1 to 3
\* passed their validation at that moment.
C25_SubmitOnlyFromFinalStep ==
    lastSubmission.reached =>
        /\ lastSubmission.step = totalSteps
        /\ lastSubmission.valid

\* C26: in the report form 1 <= currentStep <= totalSteps holds in every
\* reachable state, for every interleaving of nextStep, prevStep and
\* resetForm, a nextStep called while an earlier one is suspended at its
\* await included; and currentStep increases only when validateCurrentStep
\* returned true for the step being left.
C26_StepWithinBounds ==
    /\ [](currentStep \in 1 .. totalSteps)
    /\ [][ currentStep' > currentStep =>
               /\ nextCalls # <<>>
               /\ Head(nextCalls).result
               /\ Head(nextCalls).step = currentStep ]_vars

\* C27: form submission is single-flight: at most one handleSubmit call is
\* between setting isSubmitting and its finally block, so at most one
\* submitData request is in flight; a submit event that arrives meanwhile
\* starts nothing; and isSubmitting is false whenever no call is in
\* progress, however the last one ended.
C27_SingleFlight ==
    /\ Len(submitCalls) <= 1
    /\ Cardinality({ i \in DOMAIN submitCalls :
                       submitCalls[i].pc = "submitting" }) <= 1
    /\ isSubmitting <=> (submitCalls # <<>>)

\* a submit event arrived while the request of an earlier one was in flight
C27_Witness ==
    /\ formCall = "handleSubmit ignored"
    /\ isSubmitting
    /\ Len(submitCalls) = 1
    /\ submitCalls[1].pc = "submitting"

\* C28: SecurityConfig keeps its hashing parameters at or above the
\* minimum: in every state reachable by loadConfig calls
\* config.hash.iterations >= 100000 and config.hash.saltLength >= 16, and a
\* loadConfig call that returns false leaves config unchanged.
C28_HashMinimumsKept ==
    /\ configHash.iterations >= 100000
    /\ configHash.saltLength >= 16
    /\ \A externalConfig \in ConfigInputs :
           ~loadConfig(configHash, externalConfig).ok
               => loadConfig(configHash, externalConfig).hash = configHash

\* C29: the pepper is stable: on a SecurityConfig with a master password a
\* value stored with saveSecureConfig(key, v) is what a later
\* loadSecureConfig(key) returns, and all getPepper() and getHashConfig()
\* calls return the same pepper.
C29_PepperStable ==
    masterPassword # NoPassword =>
        /\ saved.made =>
               loadSecureConfig(masterPassword, storage, saved.key)
                   = ReturnValue(saved.value)
        /\ \A i, j \in DOMAIN peppers : peppers[i].pepper = peppers[j].pepper

\* what validateTransportationId would return in this state
IdReturn(id) ==
    validateTransportationId(dangerousLastIndex, tmLastIndex, id).res

\* id is one of allowedTransportationIds
AllowListed(id) ==
    id.kind = "string" /\ id.str \in allowedTransportationIds

\* C30: validateTransportationId, using what validateBasicInput returns,
\* answers isValid = true for every id of allowedTransportationIds and
\* isValid = false for every other id, so getTransportationData goes on to
\* the data lookup exactly for the allow-listed ids.
C30_AllowListDecides ==
    \A id \in IdInputs :
        /\ IdReturn(id).isValid <=> AllowListed(id)
        /\ getTransportationData(dangerousLastIndex, tmLastIndex, id).lookup
               <=> AllowListed(id)

====
